---- MODULE Spec2Model ----
(***************************************************************************)
(* Model of maasserver/models/interface.py: the address links of an        *)
(* interface (StaticIPAddress rows attached through Interface.ip_addresses)*)
(* and the operations of Interface that create, change and remove them.    *)
(***************************************************************************)
EXTENDS Integers, FiniteSets, Sequences, TLC

\* Python's None / SQL NULL, for ip, subnet and vlan.
None == "None"

\* None where a StaticIPAddress id is expected (ids start at 1).
NoId == 0

\* Cap of the StaticIPAddress id sequence: no row is created with an id above it.
MaxId == 2

(***************************************************************************)
(* The fixture: interfaces, subnets (on VLANs v1, v2) and their addresses.  *)
(***************************************************************************)
Ifaces == {"eth0", "eth1"}
Subnets == {"s4a", "s4b", "s6"}
AllIps == {"10.0.0.1", "10.0.0.9", "10.0.1.1"}

\* subnet.get_ipnetwork(): the addresses of the subnet's CIDR.
Network(s) ==
    CASE s = "s4a" -> {"10.0.0.1", "10.0.0.9"}
      [] s = "s4b" -> {"10.0.1.1"}
      [] s = "s6" -> {}
      [] OTHER -> {}

\* subnet.get_dynamic_range_for_ip(ip) is not None  <=>  ip \in DynamicRange(subnet)
DynamicRange(s) == IF s = "s4a" THEN {"10.0.0.9"} ELSE {}

\* subnet.vlan
SubnetVlan(s) == IF s = "s4b" THEN "v2" ELSE "v1"

\* subnet.get_ipnetwork().version (4 or 6)
IPVersion(s) == IF s = "s6" THEN "IPv6" ELSE "IPv4"

\* get_subnet_family(subnet)
get_subnet_family(subnet) == IF subnet # None THEN IPVersion(subnet) ELSE None

VARIABLES
    ips,      \* the StaticIPAddress table: id -> [alloc_type, ip, subnet]
    m2m,      \* Interface.ip_addresses: set of <<interface, StaticIPAddress id>>
    nextId,   \* the next value of the StaticIPAddress id sequence
    ifs,      \* the Interface table: key -> [type, enabled, vlan, ...]
    subnet_set,  \* the Subnet table: the CIDRs that have a Subnet row
    rels,     \* the InterfaceRelationship table: set of <<child, parent>>
    nextIf,   \* the next value of the Interface id sequence
    last      \* the last operation called and its outcome

vars == <<ips, m2m, nextId, ifs, subnet_set, rels, nextIf, last>>

\* The database as one value, as the handlers below pass it along.
DB ==
    [ips |-> ips, m2m |-> m2m, nextId |-> nextId, ifs |-> ifs,
     subnets |-> subnet_set, rels |-> rels, nextIf |-> nextIf]

(***************************************************************************)
(* Rows and the many-to-many relation.                                     *)
(***************************************************************************)
\* self.ip_addresses.all(), as ids
IfaceIps(D, i) == {id \in DOMAIN D.ips : <<i, id>> \in D.m2m}

\* StaticIPAddress(...).save() of a new object: the row takes the next id.
CreateIp(D, rec) ==
    [D EXCEPT !.ips = (D.nextId :> rec) @@ D.ips, !.nextId = D.nextId + 1]

\* A delete that takes the address from its interfaces and leaves the row.
DeleteIp_Detaching(D, id) == [D EXCEPT !.m2m = {p \in D.m2m : p[2] # id}]

\* ip.delete(): the row goes, and with it its rows of the relation.
DeleteIp(D, id) ==
    [D EXCEPT !.ips = [x \in (DOMAIN D.ips) \ {id} |-> D.ips[x]],
              !.m2m = {p \in D.m2m : p[2] # id}]

DeleteIps(D, S) ==
    [D EXCEPT !.ips = [x \in (DOMAIN D.ips) \ S |-> D.ips[x]],
              !.m2m = {p \in D.m2m : p[2] \notin S}]

\* self.ip_addresses.add(ip)
AddIp(D, i, id) == [D EXCEPT !.m2m = D.m2m \cup {<<i, id>>}]

\* StaticIPAddress.get_interface_link_type()
get_interface_link_type(r) ==
    CASE r.alloc_type = "AUTO" -> "auto"
      [] r.alloc_type = "DHCP" -> "dhcp"
      [] r.alloc_type = "USER_RESERVED" -> "static"
      [] r.alloc_type = "STICKY" -> IF r.ip = None THEN "link_up" ELSE "static"
      [] OTHER -> "discovered"

\* self.ip_addresses.exclude(alloc_type=IPADDRESS_TYPE.DISCOVERED), as ids
Links(D, i) == {id \in IfaceIps(D, i) : D.ips[id].alloc_type # "DISCOVERED"}

Min(S) == CHOOSE x \in S : \A y \in S : x <= y

(***************************************************************************)
(* Interface._remove_link_dhcp, Interface._remove_link_up                  *)
(***************************************************************************)
\* A _remove_link_dhcp that removes the DHCP links of every family.
_remove_link_dhcp_AnyFamily(D, i, subnet_family) ==
    DeleteIps(D, {id \in IfaceIps(D, i) :
        /\ D.ips[id].alloc_type # "DISCOVERED"
        /\ get_interface_link_type(D.ips[id]) = "dhcp"})

_remove_link_dhcp(D, i, subnet_family) ==
    DeleteIps(D, {id \in IfaceIps(D, i) :
        /\ D.ips[id].alloc_type # "DISCOVERED"
        /\ get_interface_link_type(D.ips[id]) = "dhcp"
        /\ \/ subnet_family = None
           \/ D.ips[id].subnet = None
           \/ IPVersion(D.ips[id].subnet) = subnet_family})

\* A _remove_link_up that removes nothing.
_remove_link_up_Nothing(D, i) == D

_remove_link_up(D, i) ==
    DeleteIps(D, {id \in IfaceIps(D, i) :
        /\ D.ips[id].alloc_type # "DISCOVERED"
        /\ get_interface_link_type(D.ips[id]) = "link_up"})

\* What a handler gives back: the database it leaves, the id of the
\* StaticIPAddress it returns (NoId when it returns none) and the exception it
\* raised ("ok" when it raised none; the database is then the one it was given).
Ok(D, ret) == [db |-> D, ret |-> ret, result |-> "ok"]
Raise(D, exc) == [db |-> D, ret |-> NoId, result |-> exc]

(***************************************************************************)
(* Interface._link_subnet_auto, _link_subnet_dhcp, _link_subnet_link_up    *)
(***************************************************************************)
\* A _link_subnet_auto that leaves the DHCP links alone.
_link_subnet_auto_KeepingDhcp(D, i, subnet) ==
    LET D1 == CreateIp(D, [alloc_type |-> "AUTO", ip |-> None, subnet |-> subnet])
        D2 == AddIp(D1, i, D.nextId)
    IN  Ok(_remove_link_up(D2, i), D.nextId)

_link_subnet_auto(D, i, subnet) ==
    LET D1 == CreateIp(D, [alloc_type |-> "AUTO", ip |-> None, subnet |-> subnet])
        D2 == AddIp(D1, i, D.nextId)
        D3 == _remove_link_dhcp(D2, i, get_subnet_family(subnet))
    IN  Ok(_remove_link_up(D3, i), D.nextId)

\* A _link_subnet_dhcp that also drops the STATIC links of the interface.
_link_subnet_dhcp_DroppingStatic(D, i, subnet) ==
    LET D0 == DeleteIps(D, {id \in Links(D, i) :
                    get_interface_link_type(D.ips[id]) = "static"})
        D1 == _remove_link_dhcp(D0, i, get_subnet_family(subnet))
        D2 == CreateIp(D1, [alloc_type |-> "DHCP", ip |-> None, subnet |-> subnet])
        D3 == AddIp(D2, i, D.nextId)
    IN  Ok(_remove_link_up(D3, i), D.nextId)

_link_subnet_dhcp(D, i, subnet) ==
    LET D1 == _remove_link_dhcp(D, i, get_subnet_family(subnet))
        D2 == CreateIp(D1, [alloc_type |-> "DHCP", ip |-> None, subnet |-> subnet])
        D3 == AddIp(D2, i, D.nextId)
    IN  Ok(_remove_link_up(D3, i), D.nextId)

\* A _link_subnet_link_up that leaves the earlier LINK_UP links alone.
_link_subnet_link_up_KeepingLinkUp(D, i, subnet) ==
    LET D2 == CreateIp(D, [alloc_type |-> "STICKY", ip |-> None, subnet |-> subnet])
        D3 == AddIp(D2, i, D.nextId)
    IN  Ok(_remove_link_dhcp(D3, i, get_subnet_family(subnet)), D.nextId)

_link_subnet_link_up(D, i, subnet) ==
    LET D1 == _remove_link_up(D, i)
        D2 == CreateIp(D1, [alloc_type |-> "STICKY", ip |-> None, subnet |-> subnet])
        D3 == AddIp(D2, i, D.nextId)
    IN  Ok(_remove_link_dhcp(D3, i, get_subnet_family(subnet)), D.nextId)

(***************************************************************************)
(* StaticIPAddress.objects.allocate_new(subnet, alloc_type,                *)
(* exclude_addresses): the addresses it may hand out.  It returns one of   *)
(* them, and raises StaticIPAddressExhaustion when there is none.          *)
(***************************************************************************)
FreeAddresses(D, subnet, alloc_type, exclude_addresses) ==
    {a \in Network(subnet) :
        /\ a \notin exclude_addresses
        /\ \A id \in DOMAIN D.ips :
              D.ips[id].alloc_type # "DISCOVERED" => D.ips[id].ip # a
        /\ alloc_type \in {"AUTO", "DHCP"} => a \notin DynamicRange(subnet)}

\* A filter that finds the DISCOVERED rows with the address only.
IpsWithAddress_Discovered(D, address) ==
    {id \in DOMAIN D.ips :
        D.ips[id].ip = address /\ D.ips[id].alloc_type = "DISCOVERED"}

\* StaticIPAddress.objects.filter(ip=address), as ids
IpsWithAddress(D, address) == {id \in DOMAIN D.ips : D.ips[id].ip = address}

(***************************************************************************)
(* Interface._link_subnet_static.  `pick` is the address allocate_new      *)
(* hands out when no ip_address is requested.                              *)
(***************************************************************************)
\* A swap that deletes the old row and leaves the new one under its own id.
SwapIds_KeepingNewId(D, new, swap_static_ip) == DeleteIp(D, swap_static_ip)

\* static_ip.id, swap_static_ip.id = swap_static_ip.id, static_ip.id:
\* swap_static_ip.delete() then deletes the row just created (it now carries
\* that id), and static_ip.save() writes the new values over the row of the
\* old id, which keeps its place in Interface.ip_addresses.
SwapIds(D, new, swap_static_ip) ==
    LET rec == D.ips[new]
        D1 == DeleteIp(D, new)
    IN  [D1 EXCEPT !.ips = (swap_static_ip :> rec) @@ D1.ips]

\* A check of the subnet's network only, not of its dynamic ranges.
OutOfRange_NetworkOnly(subnet, ip_address) ==
    subnet # None /\ ip_address \notin Network(subnet)

\* The checks of a requested ip_address against the subnet: it lies in the
\* subnet's network and in none of its dynamic ranges.
OutOfRange(subnet, ip_address) ==
    /\ subnet # None
    /\ \/ ip_address \notin Network(subnet)
       \/ ip_address \in DynamicRange(subnet)

\* A get_or_create whose row, when it was there already, is attached to the
\* interface as it is.
GetRequested_Reattaching(D, i, subnet, ip_address, alloc_type) ==
    IF IpsWithAddress(D, ip_address) # {}
    THEN Ok(AddIp(D, i, Min(IpsWithAddress(D, ip_address))),
            Min(IpsWithAddress(D, ip_address)))
    ELSE Ok(AddIp(CreateIp(D,
                [alloc_type |-> alloc_type, ip |-> ip_address, subnet |-> subnet]),
                i, D.nextId), D.nextId)

\* "Try to get the requested IP address": get_or_create(ip=ip_address) and
\* the raise when the row was there already.
GetRequested(D, i, subnet, ip_address, alloc_type) ==
    IF Cardinality(IpsWithAddress(D, ip_address)) > 1
    THEN Raise(D, "MultipleObjectsReturned")
    ELSE IF IpsWithAddress(D, ip_address) # {}
    THEN Raise(D, "StaticIPAddressUnavailable")
    ELSE Ok(AddIp(CreateIp(D,
                [alloc_type |-> alloc_type, ip |-> ip_address, subnet |-> subnet]),
                i, D.nextId), D.nextId)

\* allocate_new(subnet, alloc_type=alloc_type) and the add to the interface.
GetAllocated(D, i, subnet, alloc_type, pick) ==
    IF FreeAddresses(D, subnet, alloc_type, {}) = {}
    THEN Raise(D, "StaticIPAddressExhaustion")
    ELSE Ok(AddIp(CreateIp(D,
                [alloc_type |-> alloc_type, ip |-> pick, subnet |-> subnet]),
                i, D.nextId), D.nextId)

_link_subnet_static(D, i, subnet, ip_address, alloc_type, swap_static_ip, pick) ==
    LET at == IF alloc_type = None THEN "STICKY" ELSE alloc_type
        got == IF ip_address # None
               THEN IF OutOfRange(subnet, ip_address)
                    THEN Raise(D, "StaticIPAddressOutOfRange")
                    ELSE GetRequested(D, i, subnet, ip_address, at)
               ELSE GetAllocated(D, i, subnet, at, pick)
        D2 == IF swap_static_ip # NoId
              THEN SwapIds(got.db, got.ret, swap_static_ip) ELSE got.db
        D3 == _remove_link_dhcp(D2, i, get_subnet_family(subnet))
    IN  IF alloc_type # None /\ alloc_type \notin {"STICKY", "USER_RESERVED"}
        THEN Raise(D, "ValueError")
        ELSE IF got.result # "ok" THEN got
        ELSE Ok(_remove_link_up(D3, i),
                IF swap_static_ip # NoId THEN swap_static_ip ELSE got.ret)

(***************************************************************************)
(* Interface.link_subnet                                                   *)
(***************************************************************************)
link_subnet(D, i, mode, subnet, ip_address, alloc_type, pick) ==
    CASE mode = "auto" -> _link_subnet_auto(D, i, subnet)
      [] mode = "dhcp" -> _link_subnet_dhcp(D, i, subnet)
      [] mode = "static" ->
            _link_subnet_static(D, i, subnet, ip_address, alloc_type, NoId, pick)
      [] mode = "link_up" -> _link_subnet_link_up(D, i, subnet)
      [] OTHER -> Raise(D, "ValueError")

(***************************************************************************)
(* Interface.ensure_link_up                                                *)
(***************************************************************************)
IsLinkUpRow(r) == r.alloc_type = "STICKY" /\ r.ip = None

\* An ensure_link_up that leaves the LINK_UP links beside other links.
ensure_link_up_KeepingLinkUp(D, i) ==
    IF Links(D, i) # {} \/ D.ifs[i].vlan = None THEN D
    ELSE link_subnet(D, i, "link_up", None, None, None, None).db

ensure_link_up(D, i) ==
    LET links == Links(D, i)
        link_ups == {id \in links : IsLinkUpRow(D.ips[id])}
        others == links \ link_ups
        discovered == {id \in IfaceIps(D, i) :
                         /\ D.ips[id].alloc_type = "DISCOVERED"
                         /\ D.ips[id].subnet # None
                         /\ SubnetVlan(D.ips[id].subnet) = D.ifs[i].vlan}
    IN  IF links # {}
        THEN IF link_ups # {} /\ others # {} THEN DeleteIps(D, link_ups) ELSE D
        ELSE IF D.ifs[i].vlan # None
        THEN link_subnet(D, i, "link_up",
                IF discovered # {} THEN D.ips[Min(discovered)].subnet ELSE None,
                None, None, None).db
        ELSE D

(***************************************************************************)
(* Interface._unlink_static_ip, Interface.unlink_ip_address                *)
(***************************************************************************)
_unlink_static_ip(D, id, swap_alloc_type) ==
    IF swap_alloc_type # None
    THEN [D EXCEPT !.ips[id].alloc_type = swap_alloc_type, !.ips[id].ip = None]
    ELSE DeleteIp(D, id)

\* An unlink_ip_address that ensures the LINK_UP link whatever clearing_config.
unlink_ip_address_AlwaysEnsuring(D, i, id, mode, clearing_config) ==
    LET D1 == DeleteIp(D, id)
    IN  IF D.ifs[i].enabled THEN ensure_link_up(D1, i) ELSE D1

\* `mode` is the link type of the object the caller holds; deleting a row that
\* is already gone deletes nothing.
unlink_ip_address(D, i, id, mode, clearing_config) ==
    LET D1 == IF mode = "static" THEN _unlink_static_ip(D, id, None)
              ELSE DeleteIp(D, id)
    IN  IF D.ifs[i].enabled /\ ~clearing_config THEN ensure_link_up(D1, i) ELSE D1

(***************************************************************************)
(* Interface._swap_subnet, Interface.update_ip_address                     *)
(***************************************************************************)
_swap_subnet(D, i, static_ip, subnet, ip_address, pick) ==
    IF ip_address # None /\ Cardinality(IpsWithAddress(D, ip_address)) > 1
    THEN Raise(D, "MultipleObjectsReturned")
    ELSE IF ip_address # None /\ IpsWithAddress(D, ip_address) # {}
    THEN Raise(D, "StaticIPAddressUnavailable")
    ELSE _link_subnet_static(D, i, subnet, ip_address, None, static_ip, pick)

NewAllocType(mode) ==
    CASE mode = "auto" -> "AUTO"
      [] mode = "dhcp" -> "DHCP"
      [] mode \in {"link_up", "static"} -> "STICKY"

\* An update_ip_address that leaves the ip of the link as it is when the
\* link changes to a mode other than STATIC.
update_ip_address_KeepingIp(D, i, static_ip, mode, subnet, ip_address, pick) ==
    IF mode = "static"
    THEN IF get_interface_link_type(D.ips[static_ip]) = "static"
         THEN IF /\ D.ips[static_ip].subnet = subnet
                 /\ (ip_address = None \/ D.ips[static_ip].ip = ip_address)
              THEN Ok(D, static_ip)
              ELSE _swap_subnet(D, i, static_ip, subnet, ip_address, pick)
         ELSE _link_subnet_static(D, i, subnet, ip_address, None, static_ip, pick)
    ELSE Ok([D EXCEPT !.ips[static_ip].alloc_type = NewAllocType(mode),
                      !.ips[static_ip].subnet = subnet], static_ip)

update_ip_address(D, i, static_ip, mode, subnet, ip_address, pick) ==
    LET new_alloc_type == NewAllocType(mode)
        current_mode == get_interface_link_type(D.ips[static_ip])
        InPlace(D1) ==
            Ok([D1 EXCEPT !.ips[static_ip] =
                    [alloc_type |-> new_alloc_type, ip |-> None, subnet |-> subnet]],
               static_ip)
    IN  IF current_mode = "static"
        THEN IF mode = "static"
             THEN IF /\ D.ips[static_ip].subnet = subnet
                     /\ (ip_address = None \/ D.ips[static_ip].ip = ip_address)
                  THEN Ok(D, static_ip)
                  ELSE _swap_subnet(D, i, static_ip, subnet, ip_address, pick)
             ELSE InPlace(_unlink_static_ip(D, static_ip, new_alloc_type))
        ELSE IF mode = "static"
        THEN _link_subnet_static(D, i, subnet, ip_address, None, static_ip, pick)
        ELSE InPlace(D)

(***************************************************************************)
(* Interface.clear_all_links: the loop runs over the links read when it    *)
(* starts (D0), in id order, and unlinks each.                             *)
(***************************************************************************)
RECURSIVE ClearLoop(_, _, _, _, _)
ClearLoop(D, D0, i, todo, clearing_config) ==
    IF todo = {} THEN D
    ELSE LET id == Min(todo)
         IN  ClearLoop(
                unlink_ip_address(D, i, id,
                    get_interface_link_type(D0.ips[id]), clearing_config),
                D0, i, todo \ {id}, clearing_config)

clear_all_links(D, i, clearing_config) ==
    ClearLoop(D, D, i, Links(D, i), clearing_config)

(***************************************************************************)
(* Interface.update_ip_addresses.  An element of cidr_list is              *)
(* [address, cidr]: IPNetwork(ip).ip and the subnet of IPNetwork(ip).cidr. *)
(***************************************************************************)
Observations ==
    { [address |-> a, cidr |-> s] : a \in AllIps, s \in Subnets } \cap
    { o \in [address : AllIps, cidr : Subnets] : o.address \in Network(o.cidr) }

\* subnet.vlan.dhcp_on: VLAN v1 is managed by the DHCP server of MAAS, v2 by
\* an external one.
dhcp_on(vlan) == vlan = "v1"

\* prev_address.interface_set.count()
InterfaceCount(D, id) == Cardinality({p \in D.m2m : p[2] = id})

\* A handling of the previous address that leaves it when an interface
\* holds it and the DHCP server is an external one.
DeletePrevious_KeepingExternal(D, prev_address, subnet) ==
    IF D.ips[prev_address].alloc_type = "DISCOVERED"
    THEN DeleteIp(D, prev_address)
    ELSE IF InterfaceCount(D, prev_address) = 0
    THEN DeleteIp(D, prev_address)
    ELSE IF dhcp_on(SubnetVlan(subnet))
    THEN DeleteIp(D, prev_address)
    ELSE D

\* What the loop does with prev_address, the row that carries the observed
\* address already: every branch deletes it (two of them log a warning).
DeletePrevious(D, prev_address, subnet) ==
    IF D.ips[prev_address].alloc_type = "DISCOVERED"
    THEN DeleteIp(D, prev_address)
    ELSE IF InterfaceCount(D, prev_address) = 0
    THEN DeleteIp(D, prev_address)
    ELSE IF dhcp_on(SubnetVlan(subnet))
    THEN DeleteIp(D, prev_address)
    ELSE DeleteIp(D, prev_address)

\* A turn that leaves the VLAN of the interface alone.
ObserveOne_KeepingVlan(D, i, o) ==
    LET subnet == o.cidr
        D1 == IF subnet \notin D.subnets
              THEN [D EXCEPT !.subnets = D.subnets \cup {subnet}] ELSE D
        prev == IpsWithAddress(D1, o.address)
        D2 == IF prev = {} THEN D1
              ELSE DeletePrevious(D1, CHOOSE id \in prev : TRUE, subnet)
        D3 == CreateIp(D2,
                [alloc_type |-> "DISCOVERED", ip |-> o.address, subnet |-> subnet])
    IN  AddIp(D3, i, D2.nextId)

\* One turn of the loop over cidr_list: Subnet.objects.get(cidr=cidr) and
\* the update of the VLAN, or Subnet.objects.create_from_cidr(cidr) when
\* there is no such Subnet; then the previous and the new address.
ObserveOne(D, i, o) ==
    LET subnet == o.cidr
        D1 == IF subnet \notin D.subnets
              THEN [D EXCEPT !.subnets = D.subnets \cup {subnet}]
              ELSE IF SubnetVlan(subnet) # D.ifs[i].vlan
              THEN [D EXCEPT !.ifs[i].vlan = SubnetVlan(subnet)] ELSE D
        \* get_one(StaticIPAddress.objects.filter(ip=address)): the loop
        \* raises before this turn when more than one row has the address
        prev == IpsWithAddress(D1, o.address)
        D2 == IF prev = {} THEN D1
              ELSE DeletePrevious(D1, CHOOSE id \in prev : TRUE, subnet)
        D3 == CreateIp(D2,
                [alloc_type |-> "DISCOVERED", ip |-> o.address, subnet |-> subnet])
    IN  AddIp(D3, i, D2.nextId)

RECURSIVE ObserveLoop(_, _, _)
ObserveLoop(D, i, cidr_list) ==
    IF cidr_list = <<>> THEN Ok(D, NoId)
    ELSE IF Cardinality(IpsWithAddress(D, Head(cidr_list).address)) > 1
    THEN Raise(D, "MultipleObjectsReturned")
    ELSE ObserveLoop(ObserveOne(D, i, Head(cidr_list)), i, Tail(cidr_list))

\* An update_ip_addresses that leaves the DISCOVERED addresses it finds.
update_ip_addresses_KeepingOld(D, i, cidr_list) ==
    LET r == ObserveLoop(D, i, cidr_list)
    IN  IF r.result = "ok" THEN r ELSE Raise(D, r.result)

update_ip_addresses(D, i, cidr_list) ==
    LET D1 == DeleteIps(D, {id \in IfaceIps(D, i) :
                                D.ips[id].alloc_type = "DISCOVERED"})
        r == ObserveLoop(D1, i, cidr_list)
    IN  IF r.result = "ok" THEN r ELSE Raise(D, r.result)

(***************************************************************************)
(* Interface.claim_auto_ips, Interface._claim_auto_ip.  allocate_new may   *)
(* return any free address, so a claim has a set of outcomes.  An outcome  *)
(* that raised carries the database as the raise left it (what the claims  *)
(* before it wrote is still there) and the links assigned so far.          *)
(***************************************************************************)
\* self.ip_addresses.filter(alloc_type=IPADDRESS_TYPE.AUTO), as ids
AutoIps(D, i) == {id \in IfaceIps(D, i) : D.ips[id].alloc_type = "AUTO"}

\* A _claim_auto_ip that allocates without the exclude_addresses.
_claim_auto_ip_NoExclusion(D, i, auto_ip, exclude_addresses) ==
    LET subnet == D.ips[auto_ip].subnet
    IN  IF subnet = None THEN {Raise(D, "StaticIPAddressUnavailable")}
        ELSE IF FreeAddresses(D, subnet, "AUTO", {}) = {}
        THEN {Raise(D, "StaticIPAddressExhaustion")}
        ELSE { Ok(DeleteIp(AddIp(CreateIp(D,
                    [alloc_type |-> "AUTO", ip |-> new_ip, subnet |-> subnet]),
                    i, D.nextId), auto_ip), D.nextId) :
               new_ip \in FreeAddresses(D, subnet, "AUTO", {}) }

_claim_auto_ip(D, i, auto_ip, exclude_addresses) ==
    LET subnet == D.ips[auto_ip].subnet
    IN  IF subnet = None THEN {Raise(D, "StaticIPAddressUnavailable")}
        ELSE IF FreeAddresses(D, subnet, "AUTO", exclude_addresses) = {}
        THEN {Raise(D, "StaticIPAddressExhaustion")}
        ELSE { Ok(DeleteIp(AddIp(CreateIp(D,
                    [alloc_type |-> "AUTO", ip |-> new_ip, subnet |-> subnet]),
                    i, D.nextId), auto_ip), D.nextId) :
               new_ip \in FreeAddresses(D, subnet, "AUTO", exclude_addresses) }

\* A loop that passes over a link whose claim raised and goes on.
RECURSIVE ClaimLoop_SkippingFailed(_, _, _, _, _)
ClaimLoop_SkippingFailed(D, i, todo, exclude_addresses, assigned_addresses) ==
    IF todo = {} THEN {Ok(D, assigned_addresses)}
    ELSE LET auto_ip == Min(todo)
         IN  IF D.ips[auto_ip].ip # None
             THEN ClaimLoop_SkippingFailed(D, i, todo \ {auto_ip},
                            exclude_addresses, assigned_addresses)
             ELSE UNION {
                    IF r.result # "ok"
                    THEN ClaimLoop_SkippingFailed(D, i, todo \ {auto_ip},
                            exclude_addresses, assigned_addresses)
                    ELSE ClaimLoop_SkippingFailed(r.db, i, todo \ {auto_ip},
                            exclude_addresses \cup {r.db.ips[r.ret].ip},
                            Append(assigned_addresses, r.ret)) :
                    r \in _claim_auto_ip(D, i, auto_ip, exclude_addresses) }

\* The loop of claim_auto_ips over the AUTO links read when it starts
\* (todo), in id order.
RECURSIVE ClaimLoop(_, _, _, _, _)
ClaimLoop(D, i, todo, exclude_addresses, assigned_addresses) ==
    IF todo = {} THEN {Ok(D, assigned_addresses)}
    ELSE LET auto_ip == Min(todo)
         IN  IF D.ips[auto_ip].ip # None
             THEN ClaimLoop(D, i, todo \ {auto_ip}, exclude_addresses,
                            assigned_addresses)
             ELSE UNION {
                    IF r.result # "ok"
                    THEN {[r EXCEPT !.ret = assigned_addresses]}
                    ELSE ClaimLoop(r.db, i, todo \ {auto_ip},
                            exclude_addresses \cup {r.db.ips[r.ret].ip},
                            Append(assigned_addresses, r.ret)) :
                    r \in _claim_auto_ip(D, i, auto_ip, exclude_addresses) }

\* A claim_auto_ips that undoes its claims when one of them raises.
claim_auto_ips_RollingBack(D, i, exclude_addresses) ==
    {IF r.result = "ok" THEN r ELSE [r EXCEPT !.db = D] :
        r \in ClaimLoop(D, i, AutoIps(D, i), exclude_addresses, <<>>)}

claim_auto_ips(D, i, exclude_addresses) ==
    ClaimLoop(D, i, AutoIps(D, i), exclude_addresses, <<>>)

(***************************************************************************)
(* Interface.release_auto_ips, Interface._release_auto_ip                  *)
(***************************************************************************)
\* A _release_auto_ip that deletes the link.
_release_auto_ip_Deleting(D, auto_ip) == DeleteIp(D, auto_ip)

\* auto_ip.ip = None; auto_ip.save()
_release_auto_ip(D, auto_ip) == [D EXCEPT !.ips[auto_ip].ip = None]

RECURSIVE ReleaseLoop(_, _, _)
ReleaseLoop(D, todo, released_addresses) ==
    IF todo = {} THEN Ok(D, released_addresses)
    ELSE LET auto_ip == Min(todo)
         IN  IF D.ips[auto_ip].ip # None
             THEN ReleaseLoop(_release_auto_ip(D, auto_ip), todo \ {auto_ip},
                              Append(released_addresses, auto_ip))
             ELSE ReleaseLoop(D, todo \ {auto_ip}, released_addresses)

release_auto_ips(D, i) == ReleaseLoop(D, AutoIps(D, i), <<>>)

(***************************************************************************)
(* The interface graph.  A row of the Interface table has, beside type,    *)
(* enabled and vlan, the fields name, node, mac_address, acquired, params  *)
(* and created; the parents of an interface are the parent ends of its     *)
(* InterfaceRelationship rows.                                             *)
(***************************************************************************)
\* A row of the Interface table with all its fields.
Row(type, name, node, mac_address, vlan, enabled, params, created) ==
    [type |-> type, name |-> name, node |-> node, mac_address |-> mac_address,
     vlan |-> vlan, enabled |-> enabled, acquired |-> FALSE, params |-> params,
     created |-> created]

\* Interface.params without keys, and with an mtu.
NoParams == <<>>

MtuParams == [mtu |-> 9000]

\* DEFAULT_BRIDGE_FD
DEFAULT_BRIDGE_FD == 15

\* vlan.vid, as it is written into a name
Vid(vlan) == IF vlan = "v2" THEN "2" ELSE "1"

\* The key of the next row of the Interface table.
NewKey(D) == "if" \o ToString(D.nextIf)

\* self.parents.all() and the children of an interface, as keys
Parents(D, i) == {p \in DOMAIN D.ifs : <<i, p>> \in D.rels}

Children(D, i) == {c \in DOMAIN D.ifs : <<c, i>> \in D.rels}

\* queryset.first() under Meta.ordering = ('created', )
First(D, S) == CHOOSE p \in S : \A q \in S : D.ifs[p].created <= D.ifs[q].created

\* The interfaces on which get_node() and is_enabled() of a persisted
\* interface i call themselves.
NodeCalls(D, i) ==
    LET ps == Parents(D, i)
    IN  CASE D.ifs[i].type = "vlan" -> IF ps # {} THEN {First(D, ps)} ELSE {}
          [] D.ifs[i].type \in {"bond", "bridge"} ->
                IF ps # {} /\ First(D, ps) # i THEN {First(D, ps)} ELSE {}
          [] OTHER -> {}

EnabledCalls(D, i) ==
    LET ps == Parents(D, i)
    IN  CASE D.ifs[i].type = "vlan" -> IF ps # {} THEN {First(D, ps)} ELSE {}
          [] D.ifs[i].type \in {"bond", "bridge"} -> ps \ {i}
          [] OTHER -> {}

\* A chain of n nested calls starts at interface i.
RECURSIVE NodeChain(_, _, _)
NodeChain(D, i, n) ==
    n = 0 \/ \E p \in NodeCalls(D, i) : NodeChain(D, p, n - 1)

RECURSIVE EnabledChain(_, _, _)
EnabledChain(D, i, n) ==
    n = 0 \/ \E p \in EnabledCalls(D, i) : EnabledChain(D, p, n - 1)

\* The calls never return (Python ends them with a RecursionError): there
\* is a chain of more calls than there are interfaces.
Recurses(D, i) ==
    \/ NodeChain(D, i, Cardinality(DOMAIN D.ifs) + 1)
    \/ EnabledChain(D, i, Cardinality(DOMAIN D.ifs) + 1)

\* Interface.get_node, ChildInterface.get_node, VLANInterface.get_node and
\* UnknownInterface.get_node of a persisted interface whose calls return.
RECURSIVE get_node(_, _)
get_node(D, i) ==
    CASE D.ifs[i].type = "physical" -> D.ifs[i].node
      [] D.ifs[i].type = "unknown" -> None
      [] D.ifs[i].type = "vlan" ->
            IF NodeCalls(D, i) # {}
            THEN get_node(D, First(D, Parents(D, i))) ELSE None
      [] OTHER ->
            IF NodeCalls(D, i) # {}
            THEN get_node(D, First(D, Parents(D, i))) ELSE D.ifs[i].node

\* An is_enabled that reads the stored field of every interface.
is_enabled_FromField(D, i) == D.ifs[i].enabled

\* Interface.is_enabled, ChildInterface.is_enabled and
\* VLANInterface.is_enabled of a persisted interface whose calls return.
RECURSIVE is_enabled(_, _)
is_enabled(D, i) ==
    CASE D.ifs[i].type = "vlan" ->
            IF Parents(D, i) # {}
            THEN is_enabled(D, First(D, Parents(D, i))) ELSE TRUE
      [] D.ifs[i].type \in {"bond", "bridge"} ->
            IF Parents(D, i) # {}
            THEN \E p \in Parents(D, i) \ {i} : is_enabled(D, p)
            ELSE D.ifs[i].enabled
      [] OTHER -> D.ifs[i].enabled

\* A get_name that gives the stored name of every interface.
get_name_Stored(D, i) == D.ifs[i].name

\* build_vlan_interface_name(parent, vlan), with Interface.get_name and
\* VLANInterface.get_name of a persisted interface whose calls return.
RECURSIVE get_name(_, _)
build_vlan_interface_name(D, parent, vlan) ==
    IF parent # None THEN get_name(D, parent) \o "." \o Vid(vlan)
    ELSE "unknown." \o Vid(vlan)

get_name(D, i) ==
    IF D.ifs[i].type = "vlan"
    THEN IF Parents(D, i) # {}
         THEN build_vlan_interface_name(D, First(D, Parents(D, i)),
                                        D.ifs[i].vlan)
         ELSE "vlan" \o Vid(D.ifs[i].vlan)
    ELSE D.ifs[i].name

(***************************************************************************)
(* clean() of the interface at key i, by its type; `persisted` is          *)
(* self.id is not None.  It gives "ok" or the exception raised, a          *)
(* ValidationError with the field it names.                                *)
(***************************************************************************)
\* A _validate_parent_interfaces that lets a bridge have a bridge as its
\* parent.
_validate_parent_interfaces_BridgingBridges(D, i) ==
    LET nodes == {D.ifs[p].node : p \in Parents(D, i)}
        parent_types == {D.ifs[p].type : p \in Parents(D, i)}
    IN  IF Cardinality(nodes) > 1 THEN "ValidationError(parents)"
        ELSE IF D.ifs[i].type = "bond" /\ parent_types # {"physical"}
        THEN "ValidationError(parents)"
        ELSE "ok"

\* ChildInterface._validate_parent_interfaces with the
\* _validate_acceptable_parent_types of BondInterface and BridgeInterface.
_validate_parent_interfaces(D, i) ==
    LET nodes == {D.ifs[p].node : p \in Parents(D, i)}
        parent_types == {D.ifs[p].type : p \in Parents(D, i)}
    IN  IF Cardinality(nodes) > 1 THEN "ValidationError(parents)"
        ELSE IF D.ifs[i].type = "bond" /\ parent_types # {"physical"}
        THEN "ValidationError(parents)"
        ELSE IF D.ifs[i].type = "bridge" /\ "bridge" \in parent_types
        THEN "ValidationError(parents)"
        ELSE "ok"

\* Interface.get_ancestors and Interface.get_successors, where their calls
\* return.
RECURSIVE get_ancestors(_, _)
get_ancestors(D, i) ==
    Parents(D, i) \cup UNION {get_ancestors(D, p) : p \in Parents(D, i)}

RECURSIVE get_successors(_, _)
get_successors(D, i) ==
    Children(D, i) \cup UNION {get_successors(D, c) : c \in Children(D, i)}

\* A chain of n nested calls of get_ancestors, of get_successors, starts at
\* interface i.
RECURSIVE AncestorChain(_, _, _)
AncestorChain(D, i, n) ==
    n = 0 \/ \E p \in Parents(D, i) : AncestorChain(D, p, n - 1)

RECURSIVE SuccessorChain(_, _, _)
SuccessorChain(D, i, n) ==
    n = 0 \/ \E c \in Children(D, i) : SuccessorChain(D, c, n - 1)

\* get_all_related_interfaces() never returns: a cycle of parents lies above
\* the interface, or a cycle of children below one of its ancestors.
RelatedRecurses(D, i) ==
    LET n == Cardinality(DOMAIN D.ifs) + 1
    IN  \/ AncestorChain(D, i, n)
        \/ \E a \in get_ancestors(D, i) : SuccessorChain(D, a, n)

get_all_related_interfaces(D, i) ==
    get_ancestors(D, i)
        \cup UNION {get_successors(D, a) : a \in get_ancestors(D, i)}

\* The interfaces with the MAC address of interface i that are not i and
\* not related to it.
bad_interfaces(D, i) ==
    {o \in DOMAIN D.ifs \ {i} :
        /\ D.ifs[o].mac_address = D.ifs[i].mac_address
        /\ o \notin get_all_related_interfaces(D, i)}

\* ChildInterface._validate_unique_or_parent_mac of a persisted interface:
\* bad interfaces make it write a warning to the log, and it returns.
_validate_unique_or_parent_mac(D, i) ==
    IF RelatedRecurses(D, i) THEN "RecursionError"
    ELSE IF bad_interfaces(D, i) # {} THEN "ok"
    ELSE "ok"

\* A PhysicalInterface.clean that does not look for the MAC address on
\* other physical interfaces.
PhysicalInterface_clean_AnyMac(D, i, persisted) ==
    LET self == D.ifs[i]
    IN  IF self.node = None THEN "ValidationError(node)"
        ELSE IF self.mac_address = None THEN "ValidationError(mac_address)"
        ELSE IF persisted /\ Parents(D, i) # {} THEN "ValidationError(parents)"
        ELSE "ok"

\* PhysicalInterface.clean, after Interface.clean
PhysicalInterface_clean(D, i, persisted) ==
    LET self == D.ifs[i]
    IN  IF self.node = None THEN "ValidationError(node)"
        ELSE IF self.mac_address = None THEN "ValidationError(mac_address)"
        ELSE IF \E o \in DOMAIN D.ifs \ {i} :
                  /\ D.ifs[o].type = "physical"
                  /\ D.ifs[o].mac_address = self.mac_address
        THEN "ValidationError(mac_address)"
        ELSE IF persisted /\ Parents(D, i) # {} THEN "ValidationError(parents)"
        ELSE "ok"

clean(D, i, persisted) ==
    LET self == D.ifs[i]
        parents == Parents(D, i)
    IN  IF self.acquired /\ self.type # "bridge" THEN "ValueError"
        ELSE CASE self.type = "physical" ->
                PhysicalInterface_clean(D, i, persisted)
          [] self.type \in {"bond", "bridge"} ->
                IF self.mac_address = None THEN "ValidationError(mac_address)"
                ELSE IF ~persisted THEN "ok"
                ELSE IF _validate_parent_interfaces(D, i) # "ok"
                THEN _validate_parent_interfaces(D, i)
                ELSE _validate_unique_or_parent_mac(D, i)
          [] self.type = "vlan" ->
                IF ~persisted THEN "ok"
                ELSE IF Cardinality(parents) # 1 THEN "ValidationError(parents)"
                ELSE IF D.ifs[First(D, parents)].type
                            \notin {"physical", "bond", "bridge"}
                THEN "ValidationError(parents)"
                ELSE IF self.vlan = None THEN "ValidationError(vlan)"
                ELSE "ok"
          [] OTHER ->
                IF self.node # None THEN "ValidationError(node)"
                ELSE IF persisted /\ parents # {}
                THEN "ValidationError(parents)"
                ELSE "ok"

(***************************************************************************)
(* save() of an interface, by its type: the fields it derives from the     *)
(* parents, clean() (CleanSave), and the write of the row.  `self` is the  *)
(* object saved and i its key (None for an object not saved before).  A   *)
(* VLAN interface without a vlan has no vid to make its name from          *)
(* (AttributeError).                                                       *)
(***************************************************************************)
\* The object as save() writes it, for a new object ...
DerivedNew(D, self) ==
    CASE self.type \in {"bond", "bridge"} -> [self EXCEPT !.enabled = TRUE]
      [] self.type = "vlan" ->
            [self EXCEPT !.node = None, !.enabled = TRUE,
                         !.name = "vlan" \o Vid(self.vlan)]
      [] OTHER -> self

\* A save that writes the fields as the object carries them.
Derived_Stored(D, i) == D.ifs[i]

\* ... and for a persisted one, on the database D that holds `self` at i.
Derived(D, i) ==
    LET self == D.ifs[i]
    IN  CASE self.type \in {"bond", "bridge"} ->
                [self EXCEPT !.node = get_node(D, i),
                             !.enabled = is_enabled(D, i)]
          [] self.type = "vlan" ->
                [self EXCEPT !.node = get_node(D, i),
                             !.enabled = is_enabled(D, i),
                             !.mac_address =
                                 IF Parents(D, i) # {}
                                 THEN D.ifs[First(D, Parents(D, i))].mac_address
                                 ELSE self.mac_address,
                             !.name = get_name(D, i)]
          [] OTHER -> self

save(D, self, i) ==
    IF i = None
    THEN LET key == NewKey(D)
             D1 == [D EXCEPT !.ifs = (key :> [DerivedNew(D, self) EXCEPT
                                                !.created = D.nextIf]) @@ D.ifs,
                             !.nextIf = D.nextIf + 1]
         IN  IF self.type = "vlan" /\ self.vlan = None
             THEN Raise(D, "AttributeError")
             ELSE IF clean(D1, key, FALSE) # "ok"
             THEN Raise(D, clean(D1, key, FALSE))
             ELSE Ok(D1, key)
    ELSE LET D1 == [D EXCEPT !.ifs[i] = self]
             D2 == [D EXCEPT !.ifs[i] = Derived(D1, i)]
         IN  IF self.type \in {"bond", "bridge", "vlan"} /\ Recurses(D1, i)
             THEN Raise(D, "RecursionError")
             ELSE IF self.type = "vlan" /\ self.vlan = None
             THEN Raise(D, "AttributeError")
             ELSE IF clean(D2, i, TRUE) # "ok"
             THEN Raise(D, clean(D2, i, TRUE))
             ELSE Ok(D2, i)

(***************************************************************************)
(* Interface.create_acquired_bridge                                        *)
(***************************************************************************)
\* A create_acquired_bridge that attaches the links to the bridge and
\* leaves them on the interface too.
MoveLinks_Copying(D, i, bridge) ==
    [D EXCEPT !.m2m = D.m2m \cup {<<bridge, sip>> : sip \in Links(D, i)}]

\* bridge.ip_addresses.add(sip); self.ip_addresses.remove(sip) for every
\* address of the interface that is not DISCOVERED.
MoveLinks(D, i, bridge) ==
    [D EXCEPT !.m2m = (D.m2m \ {<<i, sip>> : sip \in Links(D, i)})
                        \cup {<<bridge, sip>> : sip \in Links(D, i)}]

\* The bridge made over interface i, saved, with the links of i moved to it
\* and i as its parent.
BridgeOver(D, i, bridge_stp, bridge_fd) ==
    LET self == D.ifs[i]
        params == [bridge_stp |-> IF bridge_stp = None THEN FALSE ELSE bridge_stp,
                   bridge_fd |-> IF bridge_fd = None THEN DEFAULT_BRIDGE_FD
                                 ELSE bridge_fd] @@
                  (IF "mtu" \in DOMAIN self.params
                   THEN [mtu |-> self.params.mtu] ELSE <<>>)
        bridge == [type |-> "bridge", name |-> "br-" \o get_name(D, i),
                   node |-> self.node, mac_address |-> self.mac_address,
                   vlan |-> self.vlan, enabled |-> TRUE, acquired |-> TRUE,
                   params |-> params, created |-> 0]
        saved == save(D, bridge, None)
    IN  IF saved.result # "ok" THEN saved
        ELSE Ok([MoveLinks(saved.db, i, saved.ret) EXCEPT
                    !.rels = saved.db.rels \cup {<<saved.ret, i>>}], saved.ret)

\* A create_acquired_bridge without the check of the interface's type.
create_acquired_bridge_OnAnyType(D, i, bridge_stp, bridge_fd) ==
    BridgeOver(D, i, bridge_stp, bridge_fd)

create_acquired_bridge(D, i, bridge_stp, bridge_fd) ==
    IF D.ifs[i].type = "bridge" THEN Raise(D, "ValueError")
    ELSE BridgeOver(D, i, bridge_stp, bridge_fd)

(***************************************************************************)
(* InterfaceManager.get_or_create and get_or_create_on_node.  `type` is    *)
(* the type of the model the manager is on, kwargs a record over some of   *)
(* the columns name, node, mac_address and vlan, parents a sequence of     *)
(* interfaces.                                                             *)
(***************************************************************************)
\* matches(interface) for the keyword arguments given
matches(D, c, matching_kwargs) ==
    \A key \in DOMAIN matching_kwargs : D.ifs[c][key] = matching_kwargs[key]

\* The model instance made from keyword arguments: a column that is not
\* named takes its default.
NewRow(type, kwargs) ==
    LET F(key, default) == IF key \in DOMAIN kwargs THEN kwargs[key] ELSE default
    IN  Row(type, F("name", ""), F("node", None), F("mac_address", None),
            F("vlan", None), TRUE, NoParams, 0)

\* Relationships that give the child the first of the parents only.
AddRels_FirstParent(D, child, parents) ==
    [D EXCEPT !.rels = D.rels \cup
                        {<<child, parents[k]>> : k \in DOMAIN parents \cap {1}}]

\* InterfaceRelationship(child=child, parent=parent).save() for every parent
AddRels(D, child, parents) ==
    [D EXCEPT !.rels = D.rels \cup
                        {<<child, parents[k]>> : k \in DOMAIN parents}]

\* A clear() that leaves the relationships as they are.
ClearParents_Nothing(D, i) == D

\* interface.parents.clear()
ClearParents(D, i) == [D EXCEPT !.rels = {e \in D.rels : e[1] # i}]

\* A get_or_create that does not save the interface again after its
\* parents are attached.
get_or_create_SavingOnce(D, type, kwargs, parents) ==
    LET kids == IF Len(parents) > 0
                THEN {c \in Children(D, parents[1]) : matches(D, c, kwargs)}
                ELSE {}
        rows == {c \in DOMAIN D.ifs :
                    D.ifs[c].type = type /\ matches(D, c, kwargs)}
        created == save(D, NewRow(type, kwargs), None)
    IN  IF kids # {} THEN {Ok(D, c) : c \in kids}
        ELSE IF Cardinality(rows) > 1
        THEN {Raise(D, "MultipleObjectsReturned")}
        ELSE IF rows # {} THEN {Ok(D, c) : c \in rows}
        ELSE IF created.result # "ok" THEN {created}
        ELSE {Ok(AddRels(created.db, created.ret, parents), created.ret)}

\* The outcomes of get_or_create: a child of the first parent that matches
\* (whichever relationship the database lists first), else the row of the
\* manager's type that matches, else a new row, saved, given its parents
\* and saved again.
get_or_create(D, type, kwargs, parents) ==
    LET kids == IF Len(parents) > 0
                THEN {c \in Children(D, parents[1]) : matches(D, c, kwargs)}
                ELSE {}
        rows == {c \in DOMAIN D.ifs :
                    D.ifs[c].type = type /\ matches(D, c, kwargs)}
        created == save(D, NewRow(type, kwargs), None)
        D1 == AddRels(created.db, created.ret, parents)
    IN  IF kids # {} THEN {Ok(D, c) : c \in kids}
        ELSE IF Cardinality(rows) > 1
        THEN {Raise(D, "MultipleObjectsReturned")}
        ELSE IF rows # {} THEN {Ok(D, c) : c \in rows}
        ELSE IF created.result # "ok" THEN {created}
        ELSE {save(D1, D1.ifs[created.ret], created.ret)}

\* interface.delete(): the row goes, and with it the relationships and the
\* rows of ip_addresses that name it.
delete(D, i) ==
    [D EXCEPT !.ifs = [x \in (DOMAIN D.ifs) \ {i} |-> D.ifs[x]],
              !.rels = {e \in D.rels : e[1] # i /\ e[2] # i},
              !.m2m = {p \in D.m2m : p[1] # i}]

\* get_or_create_on_node: the first interface of the manager's type with
\* the name on the node (for a physical one: or with the MAC address) gets
\* parent_nics as its parents, and loses its addresses when it is on another
\* node; without such an interface a new one is created and given the
\* parents.  Neither is saved after its parents are set; the name, MAC
\* address and node assigned to the interface found stay on the object
\* returned.  An interface found with another type on the node is deleted
\* and the call made again; the queryset holds the manager's type only.
RECURSIVE get_or_create_on_node(_, _, _, _, _, _)
get_or_create_on_node(D, type, node, name, mac_address, parent_nics) ==
    LET found == {c \in DOMAIN D.ifs :
                    /\ D.ifs[c].type = type
                    /\ IF type = "physical"
                       THEN \/ D.ifs[c].mac_address = mac_address
                            \/ D.ifs[c].name = name /\ D.ifs[c].node = node
                       ELSE D.ifs[c].name = name /\ D.ifs[c].node = node}
        interface == First(D, found)
        D1 == AddRels(ClearParents(D, interface), interface, parent_nics)
        created == save(D, NewRow(type, [name |-> name, node |-> node,
                                         mac_address |-> mac_address]), None)
    IN  IF found # {}
        THEN IF D.ifs[interface].type # type /\ D.ifs[interface].node = node
             THEN get_or_create_on_node(delete(D, interface), type, node, name,
                                        mac_address, parent_nics)
             ELSE Ok(IF D.ifs[interface].node # node
                     THEN DeleteIps(D1, IfaceIps(D1, interface)) ELSE D1,
                     interface)
        ELSE IF created.result # "ok" THEN created
        ELSE Ok(AddRels(created.db, created.ret, parent_nics), created.ret)

\* The object get_or_create_on_node returns: the interface found with the
\* MAC address, the name and (when it was on another node) the node
\* assigned to it, which no save() writes to its row; or the row created.
ReturnedInterface(D, type, node, name, mac_address, parent_nics) ==
    LET r == get_or_create_on_node(D, type, node, name, mac_address, parent_nics)
    IN  IF r.ret \in DOMAIN D.ifs
        THEN [D.ifs[r.ret] EXCEPT
                 !.mac_address = mac_address,
                 !.name = name,
                 !.node = IF D.ifs[r.ret].node # node THEN node ELSE @]
        ELSE r.db.ifs[r.ret]

(***************************************************************************)
(* InterfaceQueriesMixin._add_mode_query.  A specifier value is the        *)
(* sequence of its characters.                                             *)
(***************************************************************************)
unconfigured == <<"u", "n", "c", "o", "n", "f", "i", "g", "u", "r", "e", "d">>

\* str.lower() of one character
LowerChar(c) ==
    CASE c = "U" -> "u" [] c = "N" -> "n" [] c = "C" -> "c" [] c = "O" -> "o"
      [] c = "F" -> "f" [] c = "I" -> "i" [] c = "G" -> "g" [] c = "R" -> "r"
      [] c = "E" -> "e" [] c = "D" -> "d" [] OTHER -> c

\* item.lower()
lower(item) == [k \in DOMAIN item |-> LowerChar(item[k])]

\* item.strip(): without the whitespace at its start and at its end
strip(item) ==
    LET kept == {k \in DOMAIN item : item[k] # " "}
    IN  IF kept = {} THEN <<>>
        ELSE SubSeq(item, Min(kept), CHOOSE k \in kept : \A j \in kept : j <= k)

\* The interfaces that Q(ip_addresses__ip__isnull=True) |
\* Q(ip_addresses__ip='') selects: those with an address whose ip is NULL or
\* empty, and, the join to the addresses being a LEFT OUTER JOIN, those
\* without any address.
ModeQ(D) ==
    {i \in DOMAIN D.ifs :
        \/ IfaceIps(D, i) = {}
        \/ \E id \in IfaceIps(D, i) : D.ips[id].ip \in {None, ""}}

\* A query that selects the interfaces none of whose addresses has an ip.
_add_mode_query_NoIpAtAll(D, item) ==
    IF lower(strip(item)) # unconfigured
    THEN [result |-> "ValidationError", matched |-> {}]
    ELSE [result |-> "ok",
          matched |-> {i \in DOMAIN D.ifs :
                          \A id \in IfaceIps(D, i) : D.ips[id].ip \in {None, ""}}]

\* _add_mode_query as the only specifier: the exception raised, or the
\* interfaces the query selects.
_add_mode_query(D, item) ==
    IF lower(strip(item)) # unconfigured
    THEN [result |-> "ValidationError", matched |-> {}]
    ELSE [result |-> "ok", matched |-> ModeQ(D)]

(***************************************************************************)
(* The operations as actions. A call that raises leaves the database as   *)
(* it was (the caller rolls its transaction back).  `last` records which   *)
(* operation was called on which interface, the mode asked for, the       *)
(* exception raised ("ok" when none) and what was returned: the id of a    *)
(* StaticIPAddress (ret), a list of them (rets) or an interface (key).     *)
(***************************************************************************)
\* Longest cidr_list given to update_ip_addresses.
MaxCidrs == 1

\* Cap of the Interface id sequence: no interface is created with an id
\* above it.
MaxIf == 4

NoCall ==
    [op |-> "none", iface |-> None, mode |-> None, result |-> "ok",
     ret |-> NoId, rets |-> <<>>, key |-> None]

Call(op, i, mode) ==
    [op |-> op, iface |-> i, mode |-> mode, result |-> "ok",
     ret |-> NoId, rets |-> <<>>, key |-> None]

\* The variables after a call with outcome r, recorded as `entry`.
CommitAs(r, entry) ==
    /\ r.db.nextId <= MaxId + 1
    /\ r.db.nextIf <= MaxIf + 1
    /\ ips' = r.db.ips
    /\ m2m' = r.db.m2m
    /\ nextId' = r.db.nextId
    /\ ifs' = r.db.ifs
    /\ subnet_set' = r.db.subnets
    /\ rels' = r.db.rels
    /\ nextIf' = r.db.nextIf
    /\ last' = entry

\* A call that returns the id of a StaticIPAddress (or nothing), ...
Commit(r, call) ==
    CommitAs(r, [call EXCEPT !.result = r.result, !.ret = r.ret])

\* ... one that returns a list of them, and one that returns an interface.
CommitList(r, call) ==
    CommitAs(r, [call EXCEPT !.result = r.result, !.rets = r.ret])

CommitKey(r, call) ==
    CommitAs(r, [call EXCEPT !.result = r.result,
                             !.key = IF r.result = "ok" THEN r.ret ELSE None])

Modes == {"auto", "dhcp", "static", "link_up"}

\* The addresses allocate_new may return: any free one, None when it raises.
Picks(subnet, alloc_type) ==
    LET at == IF alloc_type = None THEN "STICKY" ELSE alloc_type
        free == FreeAddresses(DB, subnet, at, {})
    IN  IF free = {} THEN {None} ELSE free

\* interface.link_subnet(mode, subnet, ip_address=..., alloc_type=...)
LinkSubnet(i, mode, subnet, ip_address, alloc_type) ==
    /\ mode \in {"auto", "static"} => subnet # None
    /\ mode # "static" => ip_address = None /\ alloc_type = None
    /\ \E pick \in (IF mode = "static" /\ ip_address = None
                    THEN Picks(subnet, alloc_type) ELSE {None}) :
       \E r \in {link_subnet(DB, i, mode, subnet, ip_address, alloc_type, pick)} :
          Commit(r, Call("link_subnet", i, mode))

\* interface.ensure_link_up()
EnsureLinkUp(i) ==
    \E r \in {Ok(ensure_link_up(DB, i), NoId)} :
       Commit(r, Call("ensure_link_up", i, None))

\* interface.unlink_subnet_by_id(link_id)
UnlinkSubnetById(i, link_id) ==
    /\ link_id \in Links(DB, i)
    /\ \E r \in {Ok(unlink_ip_address(DB, i, link_id,
                        get_interface_link_type(ips[link_id]), FALSE), NoId)} :
          Commit(r, Call("unlink_subnet_by_id", i, None))

\* interface.update_link_by_id(link_id, mode, subnet, ip_address=...)
UpdateLinkById(i, link_id, mode, subnet, ip_address) ==
    /\ link_id \in Links(DB, i)
    /\ mode \in {"auto", "static"} => subnet # None
    /\ mode # "static" => ip_address = None
    /\ \E pick \in (IF mode = "static" /\ ip_address = None
                    THEN Picks(subnet, None) ELSE {None}) :
       \E r \in {update_ip_address(DB, i, link_id, mode, subnet, ip_address, pick)} :
          Commit(r, Call("update_link_by_id", i, mode))

\* interface.clear_all_links(clearing_config=...); `mode` records the flag.
ClearAllLinks(i, clearing_config) ==
    \E r \in {Ok(clear_all_links(DB, i, clearing_config), NoId)} :
       Commit(r, Call("clear_all_links", i,
                      IF clearing_config THEN "clearing_config" ELSE None))

\* interface.update_ip_addresses(cidr_list)
CidrLists == UNION { [1..n -> Observations] : n \in 0..MaxCidrs }

UpdateIpAddresses(i, cidr_list) ==
    \E r \in {update_ip_addresses(DB, i, cidr_list)} :
       Commit(r, Call("update_ip_addresses", i, None))

\* interface.link_subnet(INTERFACE_LINK_TYPE.AUTO, None): link_subnet does
\* not look at the subnet it is given.
LinkSubnetAutoNoSubnet(i) ==
    \E r \in {link_subnet(DB, i, "auto", None, None, None, None)} :
       Commit(r, Call("link_subnet", i, "auto"))

\* interface.claim_auto_ips(exclude_addresses=...); a call that raises is
\* rolled back by its caller.
ClaimAutoIps(i, exclude_addresses) ==
    \E r \in claim_auto_ips(DB, i, exclude_addresses) :
       CommitList(IF r.result = "ok" THEN r ELSE [r EXCEPT !.db = DB],
                  Call("claim_auto_ips", i, None))

\* interface.release_auto_ips()
ReleaseAutoIps(i) ==
    \E r \in {release_auto_ips(DB, i)} :
       CommitList(r, Call("release_auto_ips", i, None))

\* interface.create_acquired_bridge()
CreateAcquiredBridge(i) ==
    \E r \in {create_acquired_bridge(DB, i, None, None)} :
       CommitKey(r, Call("create_acquired_bridge", i, None))

\* Model.objects.get_or_create(parents=parents, **kwargs) on the manager of
\* one interface type; a call that raises is rolled back by its caller.
GetOrCreate(type, kwargs, parents) ==
    \E r \in get_or_create(DB, type, kwargs, parents) :
       CommitKey(IF r.result = "ok" THEN r ELSE [r EXCEPT !.db = DB],
                 Call("get_or_create", None, type))

\* Model.objects.get_or_create_on_node(node, name, mac_address, parent_nics)
GetOrCreateOnNode(type, node, name, mac_address, parent_nics) ==
    \E r \in {get_or_create_on_node(DB, type, node, name, mac_address,
                                    parent_nics)} :
       CommitKey(r, Call("get_or_create_on_node", None, type))

\* interface.save() of the interface as the database holds it
Save(i) ==
    \E r \in {save(DB, ifs[i], i)} : CommitKey(r, Call("save", i, None))

\* interface.enabled = enabled; interface.save()
SetEnabled(i, enabled) ==
    \E r \in {save(DB, [ifs[i] EXCEPT !.enabled = enabled], i)} :
       CommitKey(r, Call("save", i, IF enabled THEN "enabled" ELSE "disabled"))

\* interface.node = node; interface.mac_address = mac_address;
\* interface.save()
SaveWith(i, node, mac_address) ==
    \E r \in {save(DB, [ifs[i] EXCEPT !.node = node,
                                      !.mac_address = mac_address], i)} :
       CommitKey(r, Call("save", i, "mac_address"))

\* Interface.objects.filter_by_specifiers("mode:<item>"); `key` records
\* whether eth0 is among the interfaces found.
FilterByMode(item) ==
    \E q \in {_add_mode_query(DB, item)} :
       CommitKey(IF q.result = "ok"
                 THEN Ok(DB, IF "eth0" \in q.matched THEN "eth0" ELSE None)
                 ELSE Raise(DB, q.result),
                 Call("filter_by_specifiers", None, "mode"))

(***************************************************************************)
(* Specifications.  Each runs the operations its claims are about, from    *)
(* interfaces without links.                                               *)
(***************************************************************************)
Iface(enabled, vlan) == [type |-> "physical", enabled |-> enabled, vlan |-> vlan]

InitWith(enabledChoices, vlanChoices) ==
    /\ ips = <<>>
    /\ m2m = {}
    /\ nextId = 1
    /\ subnet_set = Subnets
    /\ rels = {}
    /\ nextIf = 3
    /\ \E e \in enabledChoices, v \in vlanChoices :
          ifs = [i \in Ifaces |->
                    IF i = "eth0" THEN Iface(e, v) ELSE Iface(FALSE, "v2")]
    /\ last = NoCall

AnyLinkSubnet(i, subnets, allocTypes) ==
    \E mode \in Modes, subnet \in subnets,
       ip_address \in AllIps \cup {None}, alloc_type \in allocTypes :
          LinkSubnet(i, mode, subnet, ip_address, alloc_type)

AnyUnlinkSubnetById(i) == \E link_id \in 1..MaxId : UnlinkSubnetById(i, link_id)

AnyUpdateLinkById(i) ==
    \E link_id \in 1..MaxId, mode \in Modes, subnet \in Subnets \cup {None},
       ip_address \in AllIps \cup {None} :
          UpdateLinkById(i, link_id, mode, subnet, ip_address)

AnyClearAllLinks(i) ==
    \E clearing_config \in BOOLEAN : ClearAllLinks(i, clearing_config)

AnyUpdateIpAddresses(i) ==
    \E cidr_list \in CidrLists : UpdateIpAddresses(i, cidr_list)

\* update_ip_addresses with one address observed.
ObserveOneAddress(i) == \E o \in Observations : UpdateIpAddresses(i, <<o>>)

\* Linking and unlinking on eth0 (enabled, on a VLAN or on none), with
\* addresses observed on eth0.
Init == InitWith({TRUE}, {None, "v1"})

Next ==
    \/ AnyLinkSubnet("eth0", Subnets \cup {None}, {None})
    \/ EnsureLinkUp("eth0")
    \/ AnyUnlinkSubnetById("eth0")
    \/ AnyUpdateIpAddresses("eth0")

Spec == Init /\ [][Next]_vars

\* Linking on eth0, with addresses observed on eth0 and, one at a time, on
\* eth1.
InitLink == InitWith({TRUE}, {"v1"})

NextLink ==
    \/ AnyLinkSubnet("eth0", Subnets \cup {None}, {None, "USER_RESERVED"})
    \/ AnyUpdateIpAddresses("eth0")
    \/ ObserveOneAddress("eth1")

SpecLink == InitLink /\ [][NextLink]_vars

\* Updating the links of eth0 (links made on an IPv4 and an IPv6 subnet,
\* updated to any subnet or to none).
InitUpdate == InitWith({TRUE}, {None})

NextUpdate ==
    \/ AnyLinkSubnet("eth0", {"s4a", "s6"}, {None})
    \/ AnyUpdateLinkById("eth0")

SpecUpdate == InitUpdate /\ [][NextUpdate]_vars

\* Clearing the links of eth0, enabled or not, on a VLAN or on none.
InitClear == InitWith(BOOLEAN, {None, "v1"})

NextClear ==
    \/ AnyLinkSubnet("eth0", Subnets \cup {None}, {None})
    \/ AnyClearAllLinks("eth0")
    \/ AnyUpdateIpAddresses("eth0")

SpecClear == InitClear /\ [][NextClear]_vars

\* The exclude_addresses given to claim_auto_ips.
ExcludeSets == SUBSET AllIps

AnyClaimAutoIps(i) ==
    \E exclude_addresses \in ExcludeSets : ClaimAutoIps(i, exclude_addresses)

\* Claiming and releasing the AUTO links of eth0, which holds links of every
\* type on the IPv4 subnets and AUTO links without a subnet.
InitClaim == InitWith({TRUE}, {"v1"})

NextClaim ==
    \/ AnyLinkSubnet("eth0", {"s4a", "s4b"}, {None})
    \/ LinkSubnetAutoNoSubnet("eth0")
    \/ AnyClaimAutoIps("eth0")
    \/ ReleaseAutoIps("eth0")

SpecClaim == InitClaim /\ [][NextClaim]_vars

\* Longest cidr_list observed in one call of the specification SpecObserve.
MaxObserved == 2

ObservedLists == UNION { [1..n -> Observations] : n \in 0..MaxObserved }

\* interface.link_subnet(STATIC, subnet, ip_address) on a Subnet that exists.
LinkStaticAt(i) ==
    \E subnet \in subnet_set, ip_address \in AllIps :
       LinkSubnet(i, "static", subnet, ip_address, None)

\* Observing addresses on eth0 (lists of up to MaxObserved prefixes) and on
\* eth1; eth0 is on a VLAN or on none and may hold STATIC links, and the
\* subnet s4b has a Subnet row or has none yet.
InitObserve ==
    /\ ips = <<>>
    /\ m2m = {}
    /\ nextId = 1
    /\ subnet_set \in {Subnets, Subnets \ {"s4b"}}
    /\ rels = {}
    /\ nextIf = 3
    /\ \E v \in {None, "v1"} :
          ifs = [i \in Ifaces |->
                    IF i = "eth0" THEN Iface(TRUE, v) ELSE Iface(FALSE, "v2")]
    /\ last = NoCall

NextObserve ==
    \/ \E cidr_list \in ObservedLists : UpdateIpAddresses("eth0", cidr_list)
    \/ ObserveOneAddress("eth1")
    \/ LinkStaticAt("eth0")

SpecObserve == InitObserve /\ [][NextObserve]_vars

\* Acquired bridges made over eth0 and eth1 (physical interfaces of one
\* node; eth0 holds links and observed addresses, with an mtu or without)
\* and, which fails, over the bridges.
InitBridge ==
    /\ ips = <<>>
    /\ m2m = {}
    /\ nextId = 1
    /\ subnet_set = Subnets
    /\ rels = {}
    /\ nextIf = 3
    /\ \E params \in {NoParams, MtuParams} :
          ifs = [i \in Ifaces |->
                    IF i = "eth0"
                    THEN Row("physical", "eth0", "n1", "m1", "v1", TRUE, params, 1)
                    ELSE Row("physical", "eth1", "n1", "m2", "v2", FALSE,
                             NoParams, 2)]
    /\ last = NoCall

NextBridge ==
    \/ AnyLinkSubnet("eth0", {"s4a"}, {None})
    \/ ObserveOneAddress("eth0")
    \/ \E i \in DOMAIN ifs : CreateAcquiredBridge(i)

SpecBridge == InitBridge /\ [][NextBridge]_vars

\* The keyword arguments the interfaces of each type are made with.
KwargsOf(type) ==
    CASE type = "bond" -> [name |-> "bond0", mac_address |-> "m1"]
      [] type = "bridge" -> [name |-> "br0", mac_address |-> "m1"]
      [] type = "vlan" -> [vlan |-> "v1"]
      [] type = "physical" ->
            [name |-> "eth2", node |-> "n1", mac_address |-> "m3"]
      [] OTHER -> [name |-> "unk0", mac_address |-> "m4"]

\* The lists of parents given: none, one interface, or eth0 and another.
ParentLists ==
    {<<>>} \cup {<<p>> : p \in DOMAIN ifs}
           \cup {<<"eth0", q>> : q \in DOMAIN ifs \ {"eth0"}}

AnyGetOrCreate ==
    \/ \E type \in {"bond", "bridge", "vlan"}, parents \in ParentLists :
          GetOrCreate(type, KwargsOf(type), parents)
    \/ \E parents \in {<<>>, <<"eth0">>} :
          GetOrCreate("unknown", KwargsOf("unknown"), parents)

\* A physical interface is looked up with the name and MAC address of eth0
\* and given eth1 as its parent, a bridge with the name of br0, a bond with
\* the name bond0 and br0 as its parent or none.
AnyGetOrCreateOnNode ==
    \/ GetOrCreateOnNode("physical", "n1", "eth0", "m1", <<"eth1">>)
    \/ \E parent_nics \in {<<>>} \cup {<<p>> : p \in DOMAIN ifs} :
          GetOrCreateOnNode("bridge", "n1", "br0", "m1", parent_nics)
    \/ \E parent_nics \in {<<>>, <<"if3">>} :
          GetOrCreateOnNode("bond", "n1", "bond0", "m1", parent_nics)

\* The state after BridgeInterface.objects.get_or_create(name="br0",
\* mac_address="m1", parents=[eth0]) on eth0 and eth1, physical interfaces
\* of two nodes: interfaces of every type are made over them, given other
\* parents and saved again.
InitGraph ==
    /\ ips = <<>>
    /\ m2m = {}
    /\ nextId = 1
    /\ subnet_set = Subnets
    /\ rels = {<<"if3", "eth0">>}
    /\ nextIf = 4
    /\ ifs = ("eth0" :> Row("physical", "eth0", "n1", "m1", "v1", TRUE,
                            NoParams, 1))
          @@ ("eth1" :> Row("physical", "eth1", "n2", "m2", "v2", FALSE,
                            NoParams, 2))
          @@ ("if3" :> Row("bridge", "br0", "n1", "m1", None, TRUE,
                           NoParams, 3))
    /\ last = NoCall

NextGraph ==
    \/ AnyGetOrCreate
    \/ AnyGetOrCreateOnNode
    \/ \E i \in DOMAIN ifs : Save(i)

SpecGraph == InitGraph /\ [][NextGraph]_vars

\* clean() of no interface raises a ValidationError.
Validates ==
    \A i \in DOMAIN ifs : clean(DB, i, TRUE) \in {"ok", "RecursionError"}

\* The same calls, of which only those are taken after which every
\* interface passes its clean().
NextTable ==
    \/ \E type \in {"bond", "bridge", "vlan"}, parents \in ParentLists :
          GetOrCreate(type, KwargsOf(type), parents) /\ Validates'
    \/ \E p \in DOMAIN ifs :
          GetOrCreateOnNode("bridge", "n1", "br0", "m1", <<p>>) /\ Validates'
    \/ \E i \in DOMAIN ifs : Save(i) /\ Validates'

SpecTable == InitGraph /\ [][NextTable]_vars

\* The state after BridgeInterface.objects.get_or_create(name="br0",
\* mac_address="m1", parents=[eth0, eth1]) on eth0 (enabled) and eth1
\* (disabled), physical interfaces of one node: a bond or a VLAN interface
\* is made over them, br0 is given another parent or none, and the physical
\* interfaces are enabled and disabled.
InitEnabled ==
    /\ ips = <<>>
    /\ m2m = {}
    /\ nextId = 1
    /\ subnet_set = Subnets
    /\ rels = {<<"if3", "eth0">>, <<"if3", "eth1">>}
    /\ nextIf = 4
    /\ ifs = ("eth0" :> Row("physical", "eth0", "n1", "m1", "v1", TRUE,
                            NoParams, 1))
          @@ ("eth1" :> Row("physical", "eth1", "n1", "m2", "v2", FALSE,
                            NoParams, 2))
          @@ ("if3" :> Row("bridge", "br0", "n1", "m1", None, TRUE,
                           NoParams, 3))
    /\ last = NoCall

NextEnabled ==
    \/ \E type \in {"bond", "vlan"}, parents \in ParentLists :
          GetOrCreate(type, KwargsOf(type), parents)
    \/ \E parent_nics \in {<<>>} \cup {<<p>> : p \in DOMAIN ifs} :
          GetOrCreateOnNode("bridge", "n1", "br0", "m1", parent_nics)
    \/ \E i \in Ifaces, enabled \in BOOLEAN : SetEnabled(i, enabled)
    \/ \E i \in DOMAIN ifs : Save(i)

SpecEnabled == InitEnabled /\ [][NextEnabled]_vars

\* VLAN interfaces made on br0, looked up again by their name and node and
\* given another parent or none, and saved.
AnyGetOrCreateVlan ==
    \E vlan \in {"v1", "v2"}, parents \in {<<>>, <<"if3">>} :
       GetOrCreate("vlan", [vlan |-> vlan], parents)

AnyGetOrCreateVlanOnNode ==
    \E v \in DOMAIN ifs, parent_nics \in {<<>>} \cup {<<p>> : p \in DOMAIN ifs} :
       /\ ifs[v].type = "vlan"
       /\ GetOrCreateOnNode("vlan", ifs[v].node, ifs[v].name,
                            ifs[v].mac_address, parent_nics)

NextVlan ==
    \/ AnyGetOrCreateVlan
    \/ AnyGetOrCreateVlanOnNode
    \/ \E i \in DOMAIN ifs : Save(i)

SpecVlan == InitGraph /\ [][NextVlan]_vars

\* The MAC addresses and nodes given to physical interfaces.
Macs == {"m1", "m2", "m3"}

\* Physical interfaces made beside eth0 and eth1, and every physical
\* interface saved with another node or MAC address, or with none.
InitPhysical ==
    /\ ips = <<>>
    /\ m2m = {}
    /\ nextId = 1
    /\ subnet_set = Subnets
    /\ rels = {}
    /\ nextIf = 3
    /\ ifs = [i \in Ifaces |->
                IF i = "eth0"
                THEN Row("physical", "eth0", "n1", "m1", "v1", TRUE, NoParams, 1)
                ELSE Row("physical", "eth1", "n2", "m2", "v2", FALSE,
                         NoParams, 2)]
    /\ last = NoCall

NextPhysical ==
    \/ \E node \in {"n1", None}, mac_address \in Macs \cup {None} :
          GetOrCreate("physical", [name |-> "eth2", node |-> node,
                                   mac_address |-> mac_address], <<>>)
    \/ \E mac_address \in Macs :
          GetOrCreateOnNode("physical", "n2", "eth3", mac_address, <<>>)
    \/ \E i \in DOMAIN ifs, node \in {"n1", "n2", None},
          mac_address \in Macs \cup {None} : SaveWith(i, node, mac_address)

SpecPhysical == InitPhysical /\ [][NextPhysical]_vars

\* Beside eth0, eth1 and the bridge br0 over eth0, a bond is made over eth1,
\* and every interface is saved with every MAC address.
NextMac ==
    \/ \E mac_address \in Macs :
          GetOrCreate("bond", [name |-> "bond0", mac_address |-> mac_address],
                      <<"eth1">>)
    \/ \E i \in DOMAIN ifs, mac_address \in Macs :
          SaveWith(i, ifs[i].node, mac_address)

SpecMac == InitGraph /\ [][NextMac]_vars

\* Keyword arguments that name only columns save() does not derive, and
\* keyword arguments that name a derived column (the name of a VLAN
\* interface, the node of a bond) with a value save() replaces.
RepeatedKwargs(type) ==
    CASE type = "vlan" -> {[vlan |-> "v1"], [vlan |-> "v2", name |-> "vlan2"]}
      [] OTHER -> {KwargsOf(type),
                   [name |-> "bond1", mac_address |-> "m2", node |-> "n2"]}

\* Bonds and VLAN interfaces are made over eth0, eth1 (both of node n1) and
\* what stands over them, with each of these keyword arguments, and saved;
\* br0 is given one of eth0 and eth1 as its parent, or none.
NextAttach ==
    \/ \E type \in {"bond", "vlan"}, parents \in ParentLists :
          \E kwargs \in RepeatedKwargs(type) :
             GetOrCreate(type, kwargs, parents)
    \/ \E parent_nics \in {<<>>, <<"eth0">>, <<"eth1">>} :
          GetOrCreateOnNode("bridge", "n1", "br0", "m1", parent_nics)
    \/ \E i \in DOMAIN ifs : Save(i)

SpecAttach == InitEnabled /\ [][NextAttach]_vars

\* Interfaces of each type are looked up on node n1 by the names of eth0 and
\* br0, which the node holds as a physical interface and as a bridge.
NextStale ==
    \/ \E type \in {"physical", "bond", "bridge"}, name \in {"eth0", "br0"},
          mac_address \in {"m1", "m3"}, parent_nics \in {<<>>, <<"eth0">>} :
          GetOrCreateOnNode(type, "n1", name, mac_address, parent_nics)
    \/ \E i \in DOMAIN ifs : Save(i)

SpecStale == InitGraph /\ [][NextStale]_vars

\* The values given to the specifier `mode`: unconfigured, " Unconfigured ",
\* UNCONFIGURED, configured, "un configured" and the empty string.
Items ==
    {unconfigured,
     <<" ", "U", "n", "c", "o", "n", "f", "i", "g", "u", "r", "e", "d", " ">>,
     <<"U", "N", "C", "O", "N", "F", "I", "G", "U", "R", "E", "D">>,
     <<"c", "o", "n", "f", "i", "g", "u", "r", "e", "d">>,
     <<"u", "n", " ", "c", "o", "n", "f", "i", "g", "u", "r", "e", "d">>,
     <<>>}

\* eth0 is given links on the subnet s4a and loses them, and the interfaces
\* are filtered by each value of `mode`.
NextMode ==
    \/ AnyLinkSubnet("eth0", {"s4a"}, {None})
    \/ AnyUnlinkSubnetById("eth0")
    \/ \E item \in Items : FilterByMode(item)

SpecMode == InitLink /\ [][NextMode]_vars

\* eth0 is given AUTO, DHCP and STATIC links on s4a, never a LINK_UP link by
\* link_subnet; its links are updated to every mode, unlinked, claimed and
\* released, and an acquired bridge is made over it.
NextFallback ==
    \/ \E mode \in {"auto", "dhcp", "static"} :
          LinkSubnet("eth0", mode, "s4a", None, None)
    \/ \E link_id \in 1..MaxId, mode \in Modes, subnet \in {"s4a", None} :
          UpdateLinkById("eth0", link_id, mode, subnet, None)
    \/ EnsureLinkUp("eth0")
    \/ AnyUnlinkSubnetById("eth0")
    \/ ClaimAutoIps("eth0", {})
    \/ ReleaseAutoIps("eth0")
    \/ CreateAcquiredBridge("eth0")

SpecFallback == InitBridge /\ [][NextFallback]_vars

\* eth0 is given links of every mode on an IPv4 subnet, on an IPv6 subnet
\* and on none; its links are updated to every mode, and unlinked.
NextDhcp ==
    \/ \E mode \in Modes, subnet \in {"s4a", "s6", None} :
          LinkSubnet("eth0", mode, subnet, None, None)
    \/ \E link_id \in 1..MaxId, mode \in Modes, subnet \in {"s4a", "s6", None} :
          UpdateLinkById("eth0", link_id, mode, subnet, None)
    \/ AnyUnlinkSubnetById("eth0")
    \/ EnsureLinkUp("eth0")

SpecDhcp == InitLink /\ [][NextDhcp]_vars


\* Observing addresses on eth0 that other rows carry already: STATIC links
\* of eth0 and of eth1, addresses observed on eth1 and, in some behaviours,
\* a reserved address that no interface holds.
Reserved ==
    {[alloc_type |-> "USER_RESERVED", ip |-> a, subnet |-> s] :
        a \in AllIps, s \in Subnets} \cap
    {row \in [alloc_type : {"USER_RESERVED"}, ip : AllIps, subnet : Subnets] :
        row.ip \in Network(row.subnet)}

InitEvict ==
    /\ \/ ips = <<>> /\ nextId = 1
       \/ \E row \in Reserved : ips = (1 :> row) /\ nextId = 2
    /\ m2m = {}
    /\ subnet_set = Subnets
    /\ rels = {}
    /\ nextIf = 3
    /\ ifs = [i \in Ifaces |-> Iface(TRUE, "v1")]
    /\ last = NoCall

NextEvict ==
    \/ LinkStaticAt("eth0")
    \/ LinkStaticAt("eth1")
    \/ \E cidr_list \in ObservedLists : UpdateIpAddresses("eth0", cidr_list)
    \/ ObserveOneAddress("eth1")

SpecEvict == InitEvict /\ [][NextEvict]_vars


\* The bridge br0 over eth0 and eth1 as in InitEnabled: the physical
\* interface eth0 is enabled and disabled and eth1 moved to another node, a
\* VLAN interface is made on eth0 or br0, br0 is given other parents, an
\* acquired bridge is made over eth1, and any interface is saved again.
NextDerived ==
    \/ \E parents \in {<<"eth0">>, <<"if3">>} :
          GetOrCreate("vlan", KwargsOf("vlan"), parents)
    \/ \E parent_nics \in {<<>>, <<"eth1">>} :
          GetOrCreateOnNode("bridge", "n1", "br0", "m1", parent_nics)
    \/ \E enabled \in BOOLEAN : SetEnabled("eth0", enabled)
    \/ \E node \in {"n1", "n2"} :
          SaveWith("eth1", node, ifs["eth1"].mac_address)
    \/ CreateAcquiredBridge("eth1")
    \/ \E i \in DOMAIN ifs : Save(i)

SpecDerived == InitEnabled /\ [][NextDerived]_vars


\* The calls of get_or_create_on_node looked at: a physical interface by the
\* name and MAC address of eth0 or by others, on its node or on node n2, with
\* eth1 as parent, and a bridge br0 on n1 with no parent, eth0 or eth1.
OnNodeCalls ==
    {[type |-> "physical", node |-> node, name |-> name,
      mac_address |-> mac_address, parent_nics |-> parent_nics] :
        node \in {"n1", "n2"}, name \in {"eth0", "eth9"},
        mac_address \in {"m1", "m9"}, parent_nics \in {<<"eth1">>}}
    \cup
    {[type |-> "bridge", node |-> "n1", name |-> "br0", mac_address |-> "m1",
      parent_nics |-> parent_nics] :
        parent_nics \in {<<>>, <<"eth0">>, <<"eth1">>}}

\* eth0 and eth1 of node n1: eth0 is given a STATIC and a DHCP link on s4a
\* and an observed address, and interfaces are looked up on a node.
NextMove ==
    \/ LinkSubnet("eth0", "static", "s4a", "10.0.0.1", None)
    \/ LinkSubnet("eth0", "dhcp", "s4a", None, None)
    \/ UpdateIpAddresses("eth0", <<[address |-> "10.0.0.9", cidr |-> "s4a"]>>)
    \/ \E c \in OnNodeCalls :
          GetOrCreateOnNode(c.type, c.node, c.name, c.mac_address, c.parent_nics)

SpecMove == InitBridge /\ [][NextMove]_vars


\* The operations that give a link an ip or take it, called one after
\* another on eth0 and eth1: STATIC links with a requested address or an
\* allocated one, AUTO links that are claimed and released, links updated to
\* STATIC, and addresses observed.
NextUnique ==
    \/ \E i \in Ifaces, subnet \in {"s4a", "s4b"}, ip_address \in AllIps \cup {None} :
          LinkSubnet(i, "static", subnet, ip_address, None)
    \/ \E i \in Ifaces : LinkSubnet(i, "auto", "s4a", None, None)
    \/ \E i \in Ifaces, link_id \in 1..MaxId, subnet \in {"s4a", "s4b"},
          ip_address \in AllIps \cup {None} :
          UpdateLinkById(i, link_id, "static", subnet, ip_address)
    \/ \E i \in Ifaces : ClaimAutoIps(i, {})
    \/ \E i \in Ifaces : ReleaseAutoIps(i)
    \/ \E i \in Ifaces : ObserveOneAddress(i)

SpecUnique == InitLink /\ [][NextUnique]_vars

\* The interface the specifications call the link operations on.
Called == {"eth0"}

(***************************************************************************)
(* Properties.  What the claims speak of, read off a database D.           *)
(***************************************************************************)
\* The links of interface i whose link type is one of `types`.
LinksOfType(D, i, types) ==
    {id \in Links(D, i) : get_interface_link_type(D.ips[id]) \in types}

LinkUps(D, i) == LinksOfType(D, i, {"link_up"})

\* Link id of interface i is the same link, with the same values, in D1 and D2.
SameLink(D1, D2, i, id) ==
    /\ id \in Links(D1, i)
    /\ id \in Links(D2, i)
    /\ D1.ips[id] = D2.ips[id]

\* C1: whenever an interface holds a link of type AUTO, DHCP or STATIC it
\* holds no LINK_UP link (a STICKY row without ip), in every state that
\* link_subnet, unlink_subnet_by_id and ensure_link_up leave.
C1_NoLinkUpBesideConfigured ==
    \A i \in Ifaces :
        LinksOfType(DB, i, {"auto", "dhcp", "static"}) # {} => LinkUps(DB, i) = {}

\* C2: after ensure_link_up or unlink_subnet_by_id on an enabled interface
\* that is left without an AUTO, DHCP or STATIC link, the interface holds
\* exactly one LINK_UP link and no other link, whether it has a VLAN or not.
C2_EnabledGetsLinkUp ==
    (/\ last.op \in {"ensure_link_up", "unlink_subnet_by_id"}
     /\ ifs[last.iface].enabled
     /\ LinksOfType(DB, last.iface, {"auto", "dhcp", "static"}) = {})
    => /\ Cardinality(LinkUps(DB, last.iface)) = 1
       /\ Links(DB, last.iface) = LinkUps(DB, last.iface)

(***************************************************************************)
(* The claims about one call are stated of every call the state allows:    *)
(* r is what the handler gives back when called on the database DB.        *)
(***************************************************************************)
\* The interface holds a STATIC link on a subnet other than `subnet`.
HoldsStaticElsewhere(D, i, subnet) ==
    \E id \in LinksOfType(D, i, {"static"}) : D.ips[id].subnet # subnet

\* The call returned a link that is a new row with the values `rec`, the only
\* row it created and the only link it added to interface i.
AddedLink(D, r, i, rec) ==
    /\ r.result = "ok"
    /\ r.ret \notin DOMAIN D.ips
    /\ DOMAIN r.db.ips \ DOMAIN D.ips = {r.ret}
    /\ Links(r.db, i) \ Links(D, i) = {r.ret}
    /\ r.db.ips[r.ret] = rec

\* No DHCP link of interface i is on a subnet of the family of `subnet`.
NoDhcpInFamily(D, i, subnet) ==
    \A id \in LinksOfType(D, i, {"dhcp"}) :
        /\ D.ips[id].subnet # None
        /\ IPVersion(D.ips[id].subnet) # IPVersion(subnet)

\* The DHCP links of interface i on a subnet of the other family than `subnet`.
DhcpOfOtherFamily(D, i, subnet) ==
    {id \in LinksOfType(D, i, {"dhcp"}) :
        /\ D.ips[id].subnet # None
        /\ IPVersion(D.ips[id].subnet) # IPVersion(subnet)}

\* C3 as the specification states it: link_subnet(DHCP, subnet2) on an
\* interface that holds a STATIC link on another subnet removes that link, so
\* that the links of the interface are afterwards exactly the new DHCP link on
\* subnet2 without ip, and none is a LINK_UP link.
C3_DhcpRemovesStatic ==
    \A i \in Called, subnet2 \in Subnets :
        HoldsStaticElsewhere(DB, i, subnet2)
        => LET r == link_subnet(DB, i, "dhcp", subnet2, None, None, None)
           IN  /\ AddedLink(DB, r, i,
                     [alloc_type |-> "DHCP", ip |-> None, subnet |-> subnet2])
               /\ Links(r.db, i) = {r.ret}
               /\ LinkUps(r.db, i) = {}

\* C3, amended: link_subnet(DHCP, subnet2) on an interface that holds a STATIC
\* link on another subnet keeps that link.  Afterwards the links of the
\* interface are its earlier STATIC and AUTO links and its earlier DHCP links
\* on a subnet of the other family, all unchanged, and one new DHCP link on
\* subnet2 without ip; none is a LINK_UP link.
C3_DhcpKeepsStatic ==
    \A i \in Called, subnet2 \in Subnets :
        HoldsStaticElsewhere(DB, i, subnet2)
        => LET r == link_subnet(DB, i, "dhcp", subnet2, None, None, None)
               kept == LinksOfType(DB, i, {"static", "auto"}) \cup
                       DhcpOfOtherFamily(DB, i, subnet2)
           IN  /\ AddedLink(DB, r, i,
                     [alloc_type |-> "DHCP", ip |-> None, subnet |-> subnet2])
               /\ Links(r.db, i) = kept \cup {r.ret}
               /\ \A id \in kept : SameLink(DB, r.db, i, id)
               /\ LinkUps(r.db, i) = {}

\* The last call linked eth0 by DHCP to s4b while it held a STATIC link on
\* s4a, which it still holds.
C3_Witness ==
    /\ last.op = "link_subnet" /\ last.mode = "dhcp" /\ last.result = "ok"
    /\ last.ret \in Links(DB, "eth0")
    /\ ips[last.ret] = [alloc_type |-> "DHCP", ip |-> None, subnet |-> "s4b"]
    /\ \E id \in LinksOfType(DB, "eth0", {"static"}) :
          id < last.ret /\ ips[id].subnet = "s4a"

\* C4: link_subnet(STATIC, subnet, ip_address) with an ip_address outside the
\* subnet's network or inside its dynamic range raises
\* StaticIPAddressOutOfRange and leaves every table as it was: no
\* StaticIPAddress is created and the DHCP and LINK_UP links of the interface
\* are not removed.
C4_OutOfRangeChangesNothing ==
    \A i \in Called, subnet \in Subnets, ip_address \in AllIps :
        (\/ ip_address \notin Network(subnet)
         \/ ip_address \in DynamicRange(subnet))
        => LET r == link_subnet(DB, i, "static", subnet, ip_address, None, None)
           IN  /\ r.result = "StaticIPAddressOutOfRange"
               /\ r.db = DB

\* The last call was a link_subnet(STATIC, ...) on eth0 that raised
\* StaticIPAddressOutOfRange, and eth0 holds a DHCP link and a LINK_UP link.
C4_Witness ==
    /\ last.op = "link_subnet" /\ last.mode = "static"
    /\ last.result = "StaticIPAddressOutOfRange"
    /\ LinksOfType(DB, "eth0", {"dhcp"}) # {}
    /\ LinkUps(DB, "eth0") # {}

\* C5 as the specification states it: link_subnet(STATIC, subnet, ip_address)
\* with an ip_address that a StaticIPAddress carries already (of any
\* interface and alloc_type, DISCOVERED too) raises StaticIPAddressUnavailable
\* and leaves every table as it was.
C5_InUseIsUnavailable ==
    \A i \in Called, subnet \in Subnets, ip_address \in AllIps :
        IpsWithAddress(DB, ip_address) # {}
        => LET r == link_subnet(DB, i, "static", subnet, ip_address, None, None)
           IN  /\ r.result = "StaticIPAddressUnavailable"
               /\ r.db = DB

\* C5, amended: link_subnet(STATIC, subnet, ip_address) with an ip_address
\* that a StaticIPAddress carries already raises and leaves every table as it
\* was.  It raises StaticIPAddressUnavailable when the ip_address lies in the
\* subnet's network, outside its dynamic range, and one StaticIPAddress
\* carries it; it raises StaticIPAddressOutOfRange when the ip_address lies
\* outside the network or inside the dynamic range.
C5_InUseFailsUnchanged ==
    \A i \in Called, subnet \in Subnets, ip_address \in AllIps :
        IpsWithAddress(DB, ip_address) # {}
        => LET r == link_subnet(DB, i, "static", subnet, ip_address, None, None)
               inRange == /\ ip_address \in Network(subnet)
                          /\ ip_address \notin DynamicRange(subnet)
           IN  /\ r.result # "ok"
               /\ r.db = DB
               /\ ~inRange => r.result = "StaticIPAddressOutOfRange"
               /\ (inRange /\ Cardinality(IpsWithAddress(DB, ip_address)) = 1)
                      => r.result = "StaticIPAddressUnavailable"

\* The last call was a link_subnet(STATIC, ...) on eth0 that raised
\* StaticIPAddressUnavailable; the only addresses in the table are DISCOVERED
\* ones of eth1, and eth0 holds a DHCP or LINK_UP link.
C5_Witness ==
    /\ last.op = "link_subnet" /\ last.mode = "static" /\ last.iface = "eth0"
    /\ last.result = "StaticIPAddressUnavailable"
    /\ \A id \in DOMAIN ips :
          ips[id].ip # None =>
             ips[id].alloc_type = "DISCOVERED" /\ <<"eth1", id>> \in m2m
    /\ LinksOfType(DB, "eth0", {"dhcp", "link_up"}) # {}

\* C6: a link_subnet(STATIC, subnet, ip_address) that returns adds exactly one
\* link, on `subnet` and with an ip: the ip_address asked for, or without one
\* an address of the subnet that no link other than a DISCOVERED one carries.
\* Its alloc_type is STICKY unless another is given.  Afterwards the
\* interface holds no LINK_UP link and no DHCP link of the subnet's family;
\* its other STATIC links and its AUTO links are unchanged.
C6_StaticLinks ==
    \A i \in Called, subnet \in Subnets, ip_address \in AllIps \cup {None},
       alloc_type \in {None, "USER_RESERVED"} :
        \A pick \in (IF ip_address = None THEN Picks(subnet, alloc_type)
                      ELSE {None}) :
            LET r == link_subnet(DB, i, "static", subnet, ip_address, alloc_type, pick)
                ip == r.db.ips[r.ret].ip
            IN  r.result = "ok"
                => /\ AddedLink(DB, r, i,
                        [alloc_type |-> IF alloc_type = None THEN "STICKY"
                                        ELSE alloc_type,
                         ip |-> ip, subnet |-> subnet])
                   /\ ip # None
                   /\ ip_address # None => ip = ip_address
                   /\ ip_address = None =>
                        /\ ip \in Network(subnet)
                        /\ \A id \in DOMAIN ips :
                              ips[id].ip = ip => ips[id].alloc_type = "DISCOVERED"
                   /\ LinkUps(r.db, i) = {}
                   /\ NoDhcpInFamily(r.db, i, subnet)
                   /\ \A id \in LinksOfType(DB, i, {"static", "auto"}) :
                         SameLink(DB, r.db, i, id)

\* The last call was a link_subnet(STATIC, ...) on eth0 that returned a STICKY
\* link with an ip, the only link of eth0 beside an older STATIC or AUTO link.
C6_Witness ==
    /\ last.op = "link_subnet" /\ last.mode = "static" /\ last.result = "ok"
    /\ last.ret \in Links(DB, "eth0")
    /\ ips[last.ret].alloc_type = "STICKY" /\ ips[last.ret].ip # None
    /\ \E id \in LinksOfType(DB, "eth0", {"static", "auto"}) :
          id < last.ret /\ Links(DB, "eth0") = {id, last.ret}

\* C7: link_subnet(AUTO, subnet) adds exactly one link, an AUTO link on
\* `subnet` without ip.  Afterwards the interface holds no LINK_UP link and no
\* DHCP link of the subnet's family; its STATIC and AUTO links, its DISCOVERED
\* addresses and its DHCP links of the other family are unchanged.
C7_AutoLinks ==
    \A i \in Called, subnet \in Subnets :
        LET r == link_subnet(DB, i, "auto", subnet, None, None, None)
        IN  /\ AddedLink(DB, r, i,
                  [alloc_type |-> "AUTO", ip |-> None, subnet |-> subnet])
            /\ LinkUps(r.db, i) = {}
            /\ NoDhcpInFamily(r.db, i, subnet)
            /\ \A id \in LinksOfType(DB, i, {"static", "auto"}) \cup
                          DhcpOfOtherFamily(DB, i, subnet) :
                  SameLink(DB, r.db, i, id)
            /\ \A id \in IfaceIps(DB, i) \ Links(DB, i) :
                  /\ id \in IfaceIps(r.db, i)
                  /\ r.db.ips[id] = ips[id]

\* The last call was a link_subnet(AUTO, ...) on eth0 that returned an AUTO
\* link on an IPv4 subnet, and eth0 still holds an older DHCP link on s6.
C7_Witness ==
    /\ last.op = "link_subnet" /\ last.mode = "auto" /\ last.result = "ok"
    /\ last.ret \in Links(DB, "eth0")
    /\ ips[last.ret].alloc_type = "AUTO"
    /\ IPVersion(ips[last.ret].subnet) = "IPv4"
    /\ \E id \in LinksOfType(DB, "eth0", {"dhcp"}) :
          id < last.ret /\ ips[id].subnet = "s6"

\* C8: after link_subnet(LINK_UP, subnet) the interface holds exactly one
\* LINK_UP link, the new STICKY link without ip on `subnet` (which may be
\* None); every LINK_UP link it held before is deleted, and it holds no DHCP
\* link of the subnet's family.
C8_LinkUpReplaces ==
    \A i \in Called, subnet \in Subnets \cup {None} :
        LET r == link_subnet(DB, i, "link_up", subnet, None, None, None)
        IN  /\ AddedLink(DB, r, i,
                  [alloc_type |-> "STICKY", ip |-> None, subnet |-> subnet])
            /\ LinkUps(r.db, i) = {r.ret}
            /\ \A id \in LinkUps(DB, i) : id \notin DOMAIN r.db.ips
            /\ subnet # None => NoDhcpInFamily(r.db, i, subnet)

\* The last call was a link_subnet(LINK_UP, ...) on eth0; the link it returned
\* is the only row left, the link made before it (a LINK_UP or DHCP link) is
\* deleted.
C8_Witness ==
    /\ last.op = "link_subnet" /\ last.mode = "link_up" /\ last.result = "ok"
    /\ last.ret = 2
    /\ DOMAIN ips = {2}
    /\ Links(DB, "eth0") = {2}
    /\ IsLinkUpRow(ips[2])

\* C9: an update_link_by_id(link_id, mode, subnet, ip_address) that returns
\* keeps the identity of the link: the link returned has the id link_id, and
\* that id is still a link of the interface, of the link type asked for and
\* on the subnet asked for, whatever link type it had.  An update to STATIC
\* with an ip_address leaves the link at that ip_address, so an update to
\* (subnetA, ipA) followed by one to (subnetB, ipB) ends on subnetB at ipB
\* under the first id.
C9_UpdateKeepsId ==
    \A i \in Called, mode \in Modes, subnet \in Subnets \cup {None},
       ip_address \in AllIps \cup {None} :
        \A link_id \in Links(DB, i) :
            (/\ mode \in {"auto", "static"} => subnet # None
             /\ mode # "static" => ip_address = None)
            => \A pick \in (IF mode = "static" /\ ip_address = None
                             THEN Picks(subnet, None) ELSE {None}) :
                  LET r == update_ip_address(DB, i, link_id, mode, subnet,
                                             ip_address, pick)
                  IN  r.result = "ok"
                      => /\ r.ret = link_id
                         /\ link_id \in Links(r.db, i)
                         /\ get_interface_link_type(r.db.ips[link_id]) = mode
                         /\ r.db.ips[link_id].subnet = subnet
                         /\ (mode = "static" /\ ip_address # None)
                               => r.db.ips[link_id].ip = ip_address

\* The last call updated link 1 of eth0 to STATIC on s4b at 10.0.1.1 and
\* returned it; the row made for the swap took id 2 and is gone.
C9_Witness ==
    /\ last.op = "update_link_by_id" /\ last.result = "ok"
    /\ last.mode = "static"
    /\ last.ret = 1
    /\ nextId = 3
    /\ DOMAIN ips = {1}
    /\ Links(DB, "eth0") = {1}
    /\ ips[1] = [alloc_type |-> "STICKY", ip |-> "10.0.1.1", subnet |-> "s4b"]

\* The DISCOVERED addresses of interface i are the same rows in D1 and D2.
SameDiscovered(D1, D2, i) ==
    /\ IfaceIps(D1, i) \ Links(D1, i) = IfaceIps(D2, i) \ Links(D2, i)
    /\ \A id \in IfaceIps(D1, i) \ Links(D1, i) : D1.ips[id] = D2.ips[id]

\* C10 as the specification states it: after clear_all_links, called with
\* clearing_config or without, on an interface enabled or not, the interface
\* holds no link other than its DISCOVERED addresses, which are unchanged.
C10_ClearAllLeavesNone ==
    \A i \in Called, clearing_config \in BOOLEAN :
        LET D1 == clear_all_links(DB, i, clearing_config)
        IN  /\ Links(D1, i) = {}
            /\ SameDiscovered(DB, D1, i)

\* C10, amended: after clear_all_links(clearing_config=True) on an interface,
\* enabled or not, the interface holds no link other than its DISCOVERED
\* addresses, which are unchanged.  Without clearing_config (the default) the
\* links it held are deleted and the DISCOVERED addresses unchanged as well,
\* but an enabled interface on a VLAN that held a link ends with one LINK_UP
\* link, made by the clear.
C10_ClearAllWithFlag ==
    \A i \in Called :
        LET D1 == clear_all_links(DB, i, TRUE)
            D0 == clear_all_links(DB, i, FALSE)
        IN  /\ Links(D1, i) = {}
            /\ SameDiscovered(DB, D1, i)
            /\ SameDiscovered(DB, D0, i)
            /\ Links(DB, i) \cap DOMAIN D0.ips = {}
            /\ IF Links(DB, i) # {} /\ ifs[i].enabled /\ ifs[i].vlan # None
               THEN /\ Cardinality(Links(D0, i)) = 1
                    /\ LinkUps(D0, i) = Links(D0, i)
               ELSE Links(D0, i) = {}

\* The last call was clear_all_links(clearing_config=True) on eth0, enabled
\* and on a VLAN: the link it held is gone, no LINK_UP link is made and its
\* DISCOVERED address is still there.
C10_Witness ==
    /\ last.op = "clear_all_links" /\ last.mode = "clearing_config"
    /\ ifs["eth0"].enabled /\ ifs["eth0"].vlan # None
    /\ nextId = 3
    /\ Links(DB, "eth0") = {}
    /\ Cardinality(IfaceIps(DB, "eth0")) = 1

(***************************************************************************)
(* claim_auto_ips and release_auto_ips.  r ranges over the outcomes of a   *)
(* call on the database DB; r.ret is the list of links it returns, or had  *)
(* assigned when it raised.                                                *)
(***************************************************************************)
\* The AUTO links of interface i without ip.
Unclaimed(D, i) == {id \in AutoIps(D, i) : D.ips[id].ip = None}

Range(seq) == {seq[k] : k \in 1..Len(seq)}

\* C11: the links one claim_auto_ips(exclude_addresses) assigns are new AUTO
\* links of the interface, each with an ip; no two carry the same ip and none
\* carries an ip of exclude_addresses.  When the first two unclaimed AUTO
\* links of the interface are on the same subnet and that subnet has one free
\* address, the first is replaced by a link with that address and the call
\* raises StaticIPAddressExhaustion at the second, which is left as it was.
C11_ClaimsDistinct ==
    \A i \in Called, exclude_addresses \in ExcludeSets :
        \A r \in claim_auto_ips(DB, i, exclude_addresses) :
            LET ids == r.ret
                U == Unclaimed(DB, i)
                first == Min(U)
                second == Min(U \ {first})
            IN  /\ \A k \in 1..Len(ids) :
                      /\ ids[k] \in AutoIps(r.db, i) \ DOMAIN ips
                      /\ r.db.ips[ids[k]].ip # None
                      /\ r.db.ips[ids[k]].ip \notin exclude_addresses
                /\ \A k, l \in 1..Len(ids) :
                      k # l => r.db.ips[ids[k]].ip # r.db.ips[ids[l]].ip
                /\ r.result = "ok" => Len(ids) = Cardinality(U)
                /\ (/\ Cardinality(U) >= 2
                    /\ ips[first].subnet # None
                    /\ ips[first].subnet = ips[second].subnet
                    /\ Cardinality(FreeAddresses(DB, ips[first].subnet, "AUTO",
                                                 exclude_addresses)) = 1)
                   => /\ r.result = "StaticIPAddressExhaustion"
                      /\ Len(ids) = 1
                      /\ {r.db.ips[ids[1]].ip} =
                            FreeAddresses(DB, ips[first].subnet, "AUTO",
                                          exclude_addresses)
                      /\ first \notin DOMAIN r.db.ips
                      /\ SameLink(DB, r.db, i, second)

\* The last call was a claim_auto_ips on eth0 that raised
\* StaticIPAddressExhaustion: eth0 holds two AUTO links without ip on s4a,
\* which has one address outside its dynamic range.
C11_Witness ==
    /\ last.op = "claim_auto_ips" /\ last.iface = "eth0"
    /\ last.result = "StaticIPAddressExhaustion"
    /\ Unclaimed(DB, "eth0") = {1, 2}
    /\ ips[1].subnet = "s4a" /\ ips[2].subnet = "s4a"

\* The unclaimed AUTO links of interface i that have no subnet.
WithoutSubnet(D, i) == {id \in Unclaimed(D, i) : D.ips[id].subnet = None}

\* C12 as the specification states it: claim_auto_ips on an interface with an
\* unclaimed AUTO link without subnet raises the exception of that case
\* (StaticIPAddressUnavailable), and the link is neither deleted nor given an
\* ip.
C12_NoSubnetIsUnavailable ==
    \A i \in Called, exclude_addresses \in ExcludeSets :
        WithoutSubnet(DB, i) # {}
        => \A r \in claim_auto_ips(DB, i, exclude_addresses) :
              /\ r.result = "StaticIPAddressUnavailable"
              /\ \A id \in WithoutSubnet(DB, i) : SameLink(DB, r.db, i, id)

\* C12, amended: claim_auto_ips on an interface with an unclaimed AUTO link
\* without subnet raises, and the link is neither deleted nor given an ip.
\* It raises StaticIPAddressUnavailable, having changed nothing, when that link
\* is the first unclaimed AUTO link; otherwise it raises that or
\* StaticIPAddressExhaustion, the latter when an unclaimed AUTO link before it
\* is on a subnet without a free address.
C12_NoSubnetFails ==
    \A i \in Called, exclude_addresses \in ExcludeSets :
        WithoutSubnet(DB, i) # {}
        => \A r \in claim_auto_ips(DB, i, exclude_addresses) :
              /\ r.result \in {"StaticIPAddressUnavailable",
                               "StaticIPAddressExhaustion"}
              /\ \A id \in WithoutSubnet(DB, i) : SameLink(DB, r.db, i, id)
              /\ Min(Unclaimed(DB, i)) \in WithoutSubnet(DB, i)
                    => r.result = "StaticIPAddressUnavailable" /\ r.db = DB
              /\ r.result = "StaticIPAddressExhaustion"
                    => \E id \in Unclaimed(DB, i) \ WithoutSubnet(DB, i) :
                          /\ id < Min(WithoutSubnet(DB, i))
                          /\ FreeAddresses(r.db, ips[id].subnet, "AUTO",
                                           exclude_addresses) = {}

\* The last call was a claim_auto_ips on eth0 that raised
\* StaticIPAddressUnavailable: eth0 holds an AUTO link without subnet and
\* without ip, and a STATIC link.
C12_Witness ==
    /\ last.op = "claim_auto_ips" /\ last.iface = "eth0"
    /\ last.result = "StaticIPAddressUnavailable"
    /\ WithoutSubnet(DB, "eth0") # {}
    /\ LinksOfType(DB, "eth0", {"static"}) # {}

\* C13: release_auto_ips sets the ip of every AUTO link of the interface that
\* had one to None and returns exactly those links.  It deletes and creates no
\* row and no link: the links of the interface are the same ids before and
\* after, and every other row is unchanged.  After a claim_auto_ips that
\* returned, release_auto_ips leaves every AUTO link of the interface without
\* ip.
C13_ReleaseKeepsLinks ==
    \A i \in Called :
        LET r == release_auto_ips(DB, i)
            claimed == AutoIps(DB, i) \ Unclaimed(DB, i)
        IN  /\ r.result = "ok"
            /\ Range(r.ret) = claimed
            /\ Len(r.ret) = Cardinality(claimed)
            /\ DOMAIN r.db.ips = DOMAIN ips
            /\ r.db.m2m = m2m
            /\ r.db.nextId = nextId
            /\ \A id \in DOMAIN ips :
                  r.db.ips[id] = IF id \in claimed
                                 THEN [ips[id] EXCEPT !.ip = None] ELSE ips[id]
            /\ \A exclude_addresses \in ExcludeSets :
                  \A c \in claim_auto_ips(DB, i, exclude_addresses) :
                     c.result = "ok"
                     => LET rr == release_auto_ips(c.db, i)
                        IN  /\ Range(rr.ret) = AutoIps(c.db, i)
                            /\ AutoIps(rr.db, i) = AutoIps(c.db, i)
                            /\ Links(rr.db, i) = Links(c.db, i)
                            /\ \A id \in AutoIps(rr.db, i) :
                                  rr.db.ips[id].ip = None

\* The last call was a release_auto_ips on eth0 that returned link 2, the
\* AUTO link a claim_auto_ips had made in place of link 1: it is still a link
\* of eth0 and has no ip.
C13_Witness ==
    /\ last.op = "release_auto_ips" /\ last.iface = "eth0"
    /\ last.rets = <<2>>
    /\ nextId = 3
    /\ Links(DB, "eth0") = {2}
    /\ ips[2].alloc_type = "AUTO" /\ ips[2].ip = None /\ ips[2].subnet # None

(***************************************************************************)
(* update_ip_addresses                                                     *)
(***************************************************************************)
\* The DISCOVERED addresses of interface i.
Discovered(D, i) == IfaceIps(D, i) \ Links(D, i)

Found(D, cidr_list) ==
    {k \in 1..Len(cidr_list) :
        \/ cidr_list[k].cidr \in D.subnets
        \/ \E j \in 1..(k - 1) : cidr_list[j].cidr = cidr_list[k].cidr}

Max(S) == CHOOSE x \in S : \A y \in S : x >= y

\* C15 as the specification states it: one update_ip_addresses(cidr_list)
\* changes the VLAN of the interface at most once.  The first prefix whose
\* Subnet is found on a VLAN other than the interface's sets the VLAN, and
\* the VLAN stays that one to the end of the call.
C15_FirstObservedWins ==
    \A i \in Called, cidr_list \in ObservedLists :
        LET r == update_ip_addresses(DB, i, cidr_list)
            differ == {k \in Found(DB, cidr_list) :
                          SubnetVlan(cidr_list[k].cidr) # ifs[i].vlan}
        IN  r.result = "ok"
            => r.db.ifs[i].vlan =
                  IF differ = {} THEN ifs[i].vlan
                  ELSE SubnetVlan(cidr_list[Min(differ)].cidr)

\* C15, amended: one update_ip_addresses(cidr_list) sets the VLAN of the
\* interface at every prefix whose Subnet is found on a VLAN other than the
\* one the interface has by then.  After the call the interface is on the
\* VLAN of the last prefix whose Subnet was found, and on the VLAN it had
\* when no Subnet was found; nothing else of the interface changes.
C15_LastObservedWins ==
    \A i \in Called, cidr_list \in ObservedLists :
        LET r == update_ip_addresses(DB, i, cidr_list)
            found == Found(DB, cidr_list)
            vlan == IF found = {} THEN ifs[i].vlan
                    ELSE SubnetVlan(cidr_list[Max(found)].cidr)
        IN  r.result = "ok"
            => r.db.ifs = [ifs EXCEPT ![i].vlan = vlan]

\* The last call was an update_ip_addresses on eth0 that observed 10.0.1.1 on
\* s4b (VLAN v2) and then an address on s4a (VLAN v1), both with a Subnet
\* row: eth0 ends on v1, the VLAN of the second.
C15_Witness ==
    /\ last.op = "update_ip_addresses" /\ last.iface = "eth0"
    /\ last.result = "ok"
    /\ subnet_set = Subnets
    /\ Discovered(DB, "eth0") = {1, 2}
    /\ ips[1].subnet = "s4b" /\ ips[2].subnet = "s4a"
    /\ ifs["eth0"].vlan = "v1"

(***************************************************************************)
(* create_acquired_bridge                                                  *)
(***************************************************************************)
\* C16: create_acquired_bridge on an interface that is not a bridge returns
\* a new interface of type bridge with acquired set, the node and the
\* mac_address of the interface, the interface as its only parent, and the
\* mtu of the interface's params when they have one.  Every link of the
\* interface that is not DISCOVERED is afterwards a link of the bridge and
\* not of the interface; the DISCOVERED addresses stay on the interface, and
\* no row of the address table and no other interface changes.
C16_BridgeTakesLinks ==
    \A i \in DOMAIN ifs :
        ifs[i].type # "bridge"
        => LET r == create_acquired_bridge(DB, i, None, None)
               B == r.ret
           IN  /\ r.result = "ok"
               /\ B \notin DOMAIN ifs
               /\ DOMAIN r.db.ifs = DOMAIN ifs \cup {B}
               /\ \A o \in DOMAIN ifs : r.db.ifs[o] = ifs[o]
               /\ r.db.ifs[B].type = "bridge"
               /\ r.db.ifs[B].acquired
               /\ r.db.ifs[B].node = ifs[i].node
               /\ r.db.ifs[B].mac_address = ifs[i].mac_address
               /\ Parents(r.db, B) = {i}
               /\ r.db.rels = rels \cup {<<B, i>>}
               /\ IF "mtu" \in DOMAIN ifs[i].params
                  THEN /\ "mtu" \in DOMAIN r.db.ifs[B].params
                       /\ r.db.ifs[B].params.mtu = ifs[i].params.mtu
                  ELSE "mtu" \notin DOMAIN r.db.ifs[B].params
               /\ Links(r.db, B) = Links(DB, i)
               /\ Links(r.db, i) = {}
               /\ Discovered(r.db, i) = Discovered(DB, i)
               /\ Discovered(r.db, B) = {}
               /\ r.db.ips = ips
               /\ \A o \in DOMAIN ifs \ {i} : IfaceIps(r.db, o) = IfaceIps(DB, o)

\* The last call was a create_acquired_bridge on eth0, which has an mtu: the
\* bridge it returned holds the link eth0 held, and eth0 holds only its
\* DISCOVERED address.
C16_Witness ==
    /\ last.op = "create_acquired_bridge" /\ last.iface = "eth0"
    /\ last.result = "ok"
    /\ "mtu" \in DOMAIN ifs["eth0"].params
    /\ Cardinality(Links(DB, last.key)) = 1
    /\ Links(DB, "eth0") = {}
    /\ Cardinality(Discovered(DB, "eth0")) = 1

\* C17: create_acquired_bridge on an interface of type bridge raises
\* (ValueError) and changes nothing: no interface is created, no
\* InterfaceRelationship is added and no link is moved.
C17_BridgeOnBridgeFails ==
    \A i \in DOMAIN ifs :
        ifs[i].type = "bridge"
        => LET r == create_acquired_bridge(DB, i, None, None)
           IN  /\ r.result = "ValueError"
               /\ r.db = DB

\* The last call was a create_acquired_bridge on a bridge that holds a link;
\* it raised ValueError.
C17_Witness ==
    /\ last.op = "create_acquired_bridge" /\ last.result = "ValueError"
    /\ ifs[last.iface].type = "bridge"
    /\ Links(DB, last.iface) # {}

(***************************************************************************)
(* The composition of interfaces                                           *)
(***************************************************************************)
\* The parents of interface i break a rule of its type: a physical or
\* unknown interface with a parent, a bond without parents or with a parent
\* that is not physical, a VLAN interface without exactly one parent or on
\* an interface that is not physical, bond or bridge, a bond or bridge with
\* parents on different nodes.
BreaksTable(D, i) ==
    LET ps == Parents(D, i)
        types == {D.ifs[p].type : p \in ps}
        nodes == {D.ifs[p].node : p \in ps}
    IN  CASE D.ifs[i].type \in {"physical", "unknown"} -> ps # {}
          [] D.ifs[i].type = "bond" ->
                types # {"physical"} \/ Cardinality(nodes) > 1
          [] D.ifs[i].type = "bridge" -> Cardinality(nodes) > 1
          [] OTHER ->
                \/ Cardinality(ps) # 1
                \/ ~(types \subseteq {"physical", "bond", "bridge"})

\* The fields of interface i pass the checks its clean() makes before it
\* looks at the parents.
FieldsPass(D, i) ==
    LET self == D.ifs[i]
    IN  /\ self.acquired => self.type = "bridge"
        /\ self.type = "physical" =>
              /\ self.node # None /\ self.mac_address # None
              /\ \A o \in DOMAIN D.ifs \ {i} :
                    D.ifs[o].type = "physical"
                    => D.ifs[o].mac_address # self.mac_address
        /\ self.type \in {"bond", "bridge"} => self.mac_address # None
        /\ self.type = "unknown" => self.node = None

\* No interface matches a get_or_create of the type with these parents.
NoneMatches(type, parents) ==
    /\ \A c \in DOMAIN ifs :
          ifs[c].type = type => ~matches(DB, c, KwargsOf(type))
    /\ Len(parents) > 0 =>
          \A c \in Children(DB, parents[1]) : ~matches(DB, c, KwargsOf(type))

\* C18 as it is stated: every save of an interface whose parents break a
\* rule of its type raises the ValidationError on parents, the first save of
\* a new bond (which has no parents) included.
C18_EverySaveRejected ==
    /\ \A i \in DOMAIN ifs :
          BreaksTable(DB, i)
          => save(DB, ifs[i], i).result = "ValidationError(parents)"
    /\ save(DB, NewRow("bond", KwargsOf("bond")), None).result
          = "ValidationError(parents)"

\* C18, amended: save() of a persisted interface whose parents break a rule
\* of its type raises and writes nothing; it raises the ValidationError on
\* parents when the interface's own fields pass the earlier checks, and a
\* RecursionError when the parents form a cycle.  get_or_create with
\* parents that break a rule, when nothing matches, raises that
\* ValidationError from its second save: for a bond over a physical
\* interface and a bridge, and for a VLAN interface over two parents (none
\* of them on a cycle).  The first save of a new interface checks no
\* parents.
C18_PersistedSaveRejected ==
    /\ \A i \in DOMAIN ifs :
          BreaksTable(DB, i)
          => LET r == save(DB, ifs[i], i)
             IN  /\ r.result # "ok"
                 /\ r.db = DB
                 /\ Recurses(DB, i) /\ ifs[i].type \notin {"physical", "unknown"}
                       => r.result = "RecursionError"
                 /\ FieldsPass(DB, i) /\ ~Recurses(DB, i)
                       => r.result = "ValidationError(parents)"
    /\ \A type \in {"bond", "vlan", "unknown", "bridge"}, parents \in ParentLists :
          \A r \in get_or_create(DB, type, KwargsOf(type), parents) :
             /\ r.result = "ok" /\ r.ret \notin DOMAIN ifs
                   => ~BreaksTable(r.db, r.ret)
             /\ /\ NoneMatches(type, parents)
                /\ \A k \in DOMAIN parents : ~Recurses(DB, parents[k])
                /\ \/ type = "bond" /\ Len(parents) = 2
                      /\ "bridge" \in {ifs[parents[k]].type : k \in 1..2}
                   \/ type = "vlan" /\ Len(parents) = 2
                => r.result = "ValidationError(parents)"
    /\ \A type \in {"bond", "vlan"} :
          save(DB, NewRow(type, KwargsOf(type)), None).result = "ok"

\* The last call was a save() of a bond whose only parent is a bridge; it
\* raised the ValidationError on parents.
C18_Witness ==
    /\ last.op = "save" /\ last.result = "ValidationError(parents)"
    /\ ifs[last.iface].type = "bond"
    /\ {ifs[p].type : p \in Parents(DB, last.iface)} = {"bridge"}

\* C19 as it is stated: save() of a persisted bridge without parents, or
\* with a bridge among its parents, raises the ValidationError on parents,
\* and in no state has a save() of a bridge without parents returned.
C19_NoParentlessBridge ==
    /\ \A i \in DOMAIN ifs :
          /\ ifs[i].type = "bridge"
          /\ \/ Parents(DB, i) = {}
             \/ "bridge" \in {ifs[p].type : p \in Parents(DB, i)}
          => save(DB, ifs[i], i).result = "ValidationError(parents)"
    /\ ~(/\ last.op = "save" /\ last.result = "ok"
         /\ ifs[last.iface].type = "bridge"
         /\ Parents(DB, last.iface) = {})

\* C19, amended: save() of a persisted bridge with a bridge among its
\* parents (and no cycle of parents behind it) raises the ValidationError on
\* parents and writes nothing; save() of a persisted bridge without parents
\* returns, and the bridge keeps its node, its enabled flag and its lack of
\* parents.
C19_BridgeOverBridgeRejected ==
    \A i \in DOMAIN ifs :
        ifs[i].type = "bridge" /\ FieldsPass(DB, i)
        => LET r == save(DB, ifs[i], i)
           IN  /\ "bridge" \in {ifs[p].type : p \in Parents(DB, i)}
                  /\ ~Recurses(DB, i)
                     => r.result = "ValidationError(parents)" /\ r.db = DB
               /\ Parents(DB, i) = {}
                     => /\ r.result = "ok"
                        /\ r.db = DB

\* The last call was a save() of a persisted bridge that has no parents,
\* and it returned.
C19_Witness ==
    /\ last.op = "save" /\ last.result = "ok"
    /\ ifs[last.iface].type = "bridge"
    /\ Parents(DB, last.iface) = {}

\* The parents of interface i are what the type of i may have: none for a
\* physical or unknown interface, physical ones of one node for a bond, at
\* least one and no bridge, of one node, for a bridge, exactly one
\* physical, bond or bridge interface for a VLAN interface.
PassesTable(D, i) ==
    LET ps == Parents(D, i)
        types == {D.ifs[p].type : p \in ps}
        nodes == {D.ifs[p].node : p \in ps}
    IN  CASE D.ifs[i].type \in {"physical", "unknown"} -> ps = {}
          [] D.ifs[i].type = "bond" ->
                types = {"physical"} /\ Cardinality(nodes) = 1
          [] D.ifs[i].type = "bridge" ->
                ps # {} /\ "bridge" \notin types /\ Cardinality(nodes) = 1
          [] OTHER ->
                /\ Cardinality(ps) = 1
                /\ types \subseteq {"physical", "bond", "bridge"}

TableHolds == \A i \in DOMAIN ifs : PassesTable(DB, i)

\* The ancestors of interface i: its parents, their parents, and so on.
RECURSIVE Above(_, _, _)
Above(D, S, n) ==
    IF n = 0 THEN S
    ELSE Above(D, S \cup UNION {Parents(D, p) : p \in S}, n - 1)

AncestorsOf(D, i) == Above(D, Parents(D, i), Cardinality(DOMAIN D.ifs))

\* C20: in every state reached by calls after each of which clean() of no
\* interface raises a ValidationError, and in which every interface has parents its type
\* may have, no interface is its own ancestor; no bridge has a VLAN
\* interface as parent whose parent is that bridge.
C20_Acyclic ==
    TableHolds => \A i \in DOMAIN ifs : i \notin AncestorsOf(DB, i)

(***************************************************************************)
(* The fields derived from the parents                                     *)
(***************************************************************************)
\* The enabled state of a parent p: its enabled field when it is a physical
\* or unknown interface, what its own is_enabled() gives otherwise.
EnabledState(D, p) ==
    IF D.ifs[p].type \in {"physical", "unknown"} THEN D.ifs[p].enabled
    ELSE is_enabled(D, p)

\* C21: after any sequence of calls that set parents, remove them and
\* enable or disable interfaces, is_enabled() of a bond or bridge with
\* parents is the OR of the enabled states of its current parents, and
\* is_enabled() of a VLAN interface with one parent is the enabled state of
\* that parent (when the parents form no cycle, so that the calls return).
C21_EnabledIsOrOfParents ==
    \A i \in DOMAIN ifs :
        ifs[i].type \in {"bond", "bridge", "vlan"} /\ ~Recurses(DB, i)
        => LET ps == Parents(DB, i)
           IN  /\ ifs[i].type \in {"bond", "bridge"} /\ ps # {}
                     => is_enabled(DB, i) = (\E p \in ps : EnabledState(DB, p))
               /\ ifs[i].type = "vlan" /\ Cardinality(ps) = 1
                     => \A p \in ps : is_enabled(DB, i) = EnabledState(DB, p)

\* eth0 was just disabled: the bridge over eth0 and eth1, both disabled now,
\* is not enabled by is_enabled() while its stored field still says it is,
\* and a VLAN interface on the bridge is not enabled either.
C21_Witness ==
    /\ last.op = "save" /\ last.iface = "eth0" /\ last.mode = "disabled"
    /\ last.result = "ok"
    /\ Parents(DB, "if3") = {"eth0", "eth1"}
    /\ ~is_enabled(DB, "if3") /\ ifs["if3"].enabled
    /\ \E v \in DOMAIN ifs :
          /\ ifs[v].type = "vlan" /\ Parents(DB, v) = {"if3"}
          /\ ~is_enabled(DB, v)

\* C22 as it is stated: every save() of a persisted VLAN interface returns
\* and writes the name "<parent-name>.<vid>" and the parent's MAC address
\* when the interface has a parent, and the name "unknown.<vid>" when it has
\* none.
C22_UnknownWhenParentless ==
    \A v \in DOMAIN ifs :
        ifs[v].type = "vlan" /\ ~Recurses(DB, v)
        => LET r == save(DB, ifs[v], v)
           IN  /\ r.result = "ok"
               /\ \A p \in Parents(DB, v) :
                     /\ r.db.ifs[v].name = ifs[p].name \o "." \o Vid(ifs[v].vlan)
                     /\ r.db.ifs[v].mac_address = ifs[p].mac_address
               /\ Parents(DB, v) = {}
                     => r.db.ifs[v].name = "unknown." \o Vid(ifs[v].vlan)

\* C22, amended: save() of a persisted VLAN interface (on a vlan) with one
\* parent that is a physical, bond or bridge interface returns and writes
\* the name "<parent-name>.<vid>", the MAC address of the parent and the
\* node of the parent, and nothing else; save() of one without parents, or
\* on another VLAN interface, raises the ValidationError on parents and
\* writes nothing, so no name "unknown.<vid>" is ever stored.
C22_VlanNameFromParent ==
    /\ \A v \in DOMAIN ifs :
          ifs[v].type = "vlan" /\ ifs[v].vlan # None /\ ~Recurses(DB, v)
          => LET r == save(DB, ifs[v], v)
                 ps == Parents(DB, v)
             IN  /\ \A p \in ps :
                       Cardinality(ps) = 1
                       /\ ifs[p].type \in {"physical", "bond", "bridge"}
                       => /\ r.result = "ok"
                          /\ r.db = [DB EXCEPT !.ifs[v] = r.db.ifs[v]]
                          /\ r.db.ifs[v] =
                                [ifs[v] EXCEPT
                                   !.name = ifs[p].name \o "." \o Vid(ifs[v].vlan),
                                   !.mac_address = ifs[p].mac_address,
                                   !.node = get_node(DB, p),
                                   !.enabled = is_enabled(DB, p)]
                 /\ ps = {} \/ (\E p \in ps : ifs[p].type = "vlan")
                       => r.result = "ValidationError(parents)" /\ r.db = DB
    /\ \A i \in DOMAIN ifs :
          ifs[i].name \notin {"unknown.1", "unknown.2"}

\* The last call was a save() of a VLAN interface that was made on br0 and
\* then given eth1 as its parent: it has the name and the MAC address of
\* eth1 now.
C22_Witness ==
    /\ last.op = "save" /\ last.result = "ok"
    /\ ifs[last.iface].type = "vlan"
    /\ Parents(DB, last.iface) = {"eth1"}
    /\ ifs[last.iface].name = "eth1.1"
    /\ ifs[last.iface].mac_address = "m2"


\* C23: physical interfaces never share a MAC address; saving a physical
\* interface, new or persisted, with the MAC address of another physical
\* interface, without a node or without a MAC address raises a
\* ValidationError and writes nothing.
PhysicalRejected(D, self, i) ==
    LET r == save(D, self, i)
    IN  (\/ self.node = None
         \/ self.mac_address = None
         \/ \E o \in DOMAIN D.ifs \ {i} :
               /\ D.ifs[o].type = "physical"
               /\ D.ifs[o].mac_address = self.mac_address)
        => /\ r.result \in {"ValidationError(node)",
                            "ValidationError(mac_address)"}
           /\ r.db = D

C23_PhysicalMacUnique ==
    /\ \A i \in DOMAIN ifs :
          ifs[i].type = "physical"
          => /\ ifs[i].node # None
             /\ ifs[i].mac_address # None
             /\ \A o \in DOMAIN ifs \ {i} :
                   ifs[o].type = "physical"
                   => ifs[o].mac_address # ifs[i].mac_address
    /\ \A node \in {"n1", "n2", None}, mac_address \in Macs \cup {None} :
          /\ \A i \in DOMAIN ifs :
                ifs[i].type = "physical"
                => PhysicalRejected(DB, [ifs[i] EXCEPT
                                           !.node = node,
                                           !.mac_address = mac_address], i)
          /\ PhysicalRejected(DB, NewRow("physical",
                                         [name |-> "eth2", node |-> node,
                                          mac_address |-> mac_address]), None)

\* A third physical interface exists and a save that gave an interface the
\* MAC address of another one was rejected.
C23_Witness ==
    /\ last.op = "save"
    /\ last.mode = "mac_address"
    /\ last.result = "ValidationError(mac_address)"
    /\ ifs[last.iface].mac_address # None
    /\ Cardinality({i \in DOMAIN ifs : ifs[i].type = "physical"}) >= 3


\* C24: no bond or bridge has the MAC address of an interface that is not
\* related to it, and saving a persisted bond or bridge with such a MAC
\* address raises the ValidationError on 'mac_address'.
C24_UnrelatedMacRejected ==
    /\ \A i \in DOMAIN ifs :
          ifs[i].type \in {"bond", "bridge"} /\ ~RelatedRecurses(DB, i)
          => bad_interfaces(DB, i) = {}
    /\ \A i \in DOMAIN ifs, mac_address \in Macs :
          LET self == [ifs[i] EXCEPT !.mac_address = mac_address]
              D1 == [DB EXCEPT !.ifs[i] = self]
          IN  /\ ifs[i].type \in {"bond", "bridge"}
              /\ ~RelatedRecurses(D1, i)
              /\ bad_interfaces(D1, i) # {}
              => save(DB, self, i).result = "ValidationError(mac_address)"


(***************************************************************************)
(* get_or_create called twice                                              *)
(***************************************************************************)
\* The first call made an interface r1.ret with a relationship to every
\* parent, and the second call, on the database the first one left, returns
\* that interface and leaves the database as it is.
Attached(r1, type, kwargs, parents) ==
    /\ DOMAIN r1.db.ifs = DOMAIN ifs \cup {r1.ret}
    /\ r1.db.rels = rels \cup {<<r1.ret, parents[k]>> : k \in DOMAIN parents}
    /\ r1.db.m2m = m2m

Repeated(r1, type, kwargs, parents) ==
    get_or_create(r1.db, type, kwargs, parents) = {Ok(r1.db, r1.ret)}

\* C25, as stated: whenever get_or_create with parents creates an interface,
\* the same call made again returns that interface and changes nothing.
C25_IdempotentAttach ==
    \A type \in {"bond", "vlan"}, parents \in ParentLists \ {<<>>} :
       \A kwargs \in RepeatedKwargs(type) :
          \A r1 \in get_or_create(DB, type, kwargs, parents) :
             r1.result = "ok" /\ r1.ret \notin DOMAIN ifs
             => /\ Attached(r1, type, kwargs, parents)
                /\ Repeated(r1, type, kwargs, parents)

\* C25, amended: the created interface has a relationship to every parent,
\* and the same call made again returns it and changes nothing when the
\* columns of the saved interface still equal the keyword arguments.
C25_IdempotentWhenMatching ==
    \A type \in {"bond", "vlan"}, parents \in ParentLists \ {<<>>} :
       \A kwargs \in RepeatedKwargs(type) :
          \A r1 \in get_or_create(DB, type, kwargs, parents) :
             r1.result = "ok" /\ r1.ret \notin DOMAIN ifs
             => /\ Attached(r1, type, kwargs, parents)
                /\ matches(r1.db, r1.ret, kwargs)
                   => Repeated(r1, type, kwargs, parents)
                /\ ~matches(r1.db, r1.ret, kwargs)
                   => \A r2 \in get_or_create(r1.db, type, kwargs, parents) :
                         r2.ret # r1.ret

\* The newest interface is a bond over eth0 and eth1, what the last
\* get_or_create returned, and the same call again returns it.
C25_Witness ==
    /\ last.op = "get_or_create"
    /\ last.result = "ok"
    /\ last.key \in DOMAIN ifs
    /\ ifs[last.key].type = "bond"
    /\ ifs[last.key].created = nextIf - 1
    /\ Parents(DB, last.key) = {"eth0", "eth1"}
    /\ get_or_create(DB, "bond", KwargsOf("bond"), <<"eth0", "eth1">>)
          = {Ok(DB, last.key)}


(***************************************************************************)
(* get_or_create_on_node and an interface of another type                  *)
(***************************************************************************)
\* The interfaces of node n1 with the name (for a physical manager: or with
\* the MAC address) that are stored under another type than the manager's.
Stale(D, type, name, mac_address) ==
    {c \in DOMAIN D.ifs :
        /\ D.ifs[c].type # type
        /\ D.ifs[c].node = "n1"
        /\ \/ D.ifs[c].name = name
           \/ type = "physical" /\ D.ifs[c].mac_address = mac_address}

\* C26: get_or_create_on_node for a type, on a node that holds the name (for
\* a physical manager: or the MAC address) under another type, deletes that
\* interface and returns one of its own type; afterwards the node has no
\* interface of the old type with the name.
C26_StaleDeleted ==
    \A type \in {"physical", "bond", "bridge"}, name \in {"eth0", "br0"},
       mac_address \in {"m1", "m3"} :
       LET r == get_or_create_on_node(DB, type, "n1", name, mac_address, <<>>)
       IN  Stale(DB, type, name, mac_address) # {} /\ r.result = "ok"
           => /\ r.db.ifs[r.ret].type = type
              /\ Stale(DB, type, name, mac_address) \cap DOMAIN r.db.ifs = {}


(***************************************************************************)
(* The specifier `mode`                                                    *)
(***************************************************************************)
\* The addresses of interface i that have an ip, and those that have none.
WithIp(D, i) == {id \in IfaceIps(D, i) : D.ips[id].ip \notin {None, ""}}
WithoutIp(D, i) == IfaceIps(D, i) \ WithIp(D, i)

\* C27, as stated: mode:unconfigured finds exactly the interfaces none of
\* whose links has an ip; every other value raises.
C27_NoLinkWithIp ==
    \A item \in Items :
       LET q == _add_mode_query(DB, item)
       IN  IF item = unconfigured
           THEN /\ q.result = "ok"
                /\ q.matched = {i \in DOMAIN ifs : WithIp(DB, i) = {}}
           ELSE q.result = "ValidationError"

\* C27, amended: a value that is `unconfigured` once its surrounding blanks
\* are removed and its letters are lowered finds exactly the interfaces that
\* have no address or have an address without ip, so an interface with one
\* link with an ip and one without is found; every other value raises.
C27_SomeLinkWithoutIp ==
    \A item \in Items :
       LET q == _add_mode_query(DB, item)
       IN  IF item \in {unconfigured,
                        <<" ">> \o [k \in 1..12 |->
                                      IF k = 1 THEN "U" ELSE unconfigured[k]]
                               \o <<" ">>,
                        <<"U", "N", "C", "O", "N", "F", "I", "G", "U", "R",
                          "E", "D">>}
           THEN /\ q.result = "ok"
                /\ \A i \in DOMAIN ifs :
                      i \in q.matched
                      <=> (WithoutIp(DB, i) # {} \/ IfaceIps(DB, i) = {})
                /\ \A i \in DOMAIN ifs :
                      WithIp(DB, i) # {} /\ WithoutIp(DB, i) # {}
                      => i \in q.matched
           ELSE q.result = "ValidationError" /\ q.matched = {}

\* eth0 holds a link with an ip and a link without, and the filter
\* mode:unconfigured has found it.
C27_Witness ==
    /\ last.op = "filter_by_specifiers"
    /\ last.result = "ok"
    /\ last.key = "eth0"
    /\ WithIp(DB, "eth0") # {}
    /\ WithoutIp(DB, "eth0") # {}


(***************************************************************************)
(* ensure_link_up called twice                                             *)
(***************************************************************************)
\* C28: ensure_link_up called again right after itself changes nothing; on
\* an interface with LINK_UP links and other links it deletes the LINK_UP
\* links, all of them, and leaves every other address as it is.
C28_EnsureLinkUpIdempotent ==
    \A i \in Ifaces :
       LET D1 == ensure_link_up(DB, i)
       IN  /\ ensure_link_up(D1, i) = D1
           /\ LinkUps(DB, i) # {} /\ Links(DB, i) # LinkUps(DB, i)
              => /\ LinkUps(D1, i) = {}
                 /\ IfaceIps(D1, i) = IfaceIps(DB, i) \ LinkUps(DB, i)
                 /\ \A id \in DOMAIN D1.ips : D1.ips[id] = ips[id]
                 /\ DOMAIN D1.ips = DOMAIN ips \ LinkUps(DB, i)

\* ensure_link_up has run on eth0, which holds the first link that was made
\* and no LINK_UP link; the second link made is gone.
C28_Witness ==
    /\ last.op = "ensure_link_up"
    /\ nextId = 3
    /\ Links(DB, "eth0") = {1}
    /\ DOMAIN ips = {1}
    /\ ~IsLinkUpRow(ips[1])


\* C29: in every state that link_subnet, update_link_by_id,
\* unlink_subnet_by_id, ensure_link_up, claim_auto_ips, release_auto_ips and
\* create_acquired_bridge leave, no interface (the acquired bridge included)
\* holds a LINK_UP link together with an AUTO, DHCP or STATIC link.
C29_LinkUpIsFallbackOnly ==
    ~ \E i \in DOMAIN ifs :
         \E up \in LinkUps(DB, i), other \in Links(DB, i) :
            get_interface_link_type(ips[other]) \in {"auto", "dhcp", "static"}


(***************************************************************************)
(* DHCP links per address family                                           *)
(***************************************************************************)
DhcpLinks(D, i) == LinksOfType(D, i, {"dhcp"})

\* Interface i holds at most one DHCP link on the subnets of each family.
AtMostOneDhcp(D, i) ==
    \A a \in DhcpLinks(D, i), b \in DhcpLinks(D, i) :
       (/\ D.ips[a].subnet # None
        /\ D.ips[b].subnet # None
        /\ IPVersion(D.ips[a].subnet) = IPVersion(D.ips[b].subnet)) => a = b

\* The DHCP links of interface i that link_subnet(DHCP, subnet) keeps: those
\* on a subnet of the other family.
KeptDhcp(D, i, subnet) ==
    {id \in DhcpLinks(D, i) :
        /\ subnet # None
        /\ D.ips[id].subnet # None
        /\ IPVersion(D.ips[id].subnet) # IPVersion(subnet)}

\* The call left database D1: it added no DHCP link to interface i.
AddsNoDhcp(D1, i) == DhcpLinks(D1, i) \subseteq DhcpLinks(DB, i)

\* C30, as stated: in every state that link_subnet, update_link_by_id,
\* unlink_subnet_by_id and ensure_link_up leave, an interface holds at most
\* one DHCP link per address family.
C30_OneDhcpPerFamily == \A i \in Ifaces : AtMostOneDhcp(DB, i)

\* C30, amended: link_subnet(DHCP, subnet) leaves as DHCP links the new one
\* and the earlier ones on a subnet of the other family, unchanged;
\* link_subnet in another mode, unlink_subnet_by_id and ensure_link_up add
\* no DHCP link; so each of them keeps an interface at one DHCP link per
\* family at most.
C30_LinkSubnetKeepsOneDhcp ==
    \A i \in Ifaces :
       /\ \A subnet \in Subnets \cup {None} :
             LET r == link_subnet(DB, i, "dhcp", subnet, None, None, None)
             IN  /\ r.result = "ok"
                 /\ r.ret \notin DOMAIN ips
                 /\ DhcpLinks(r.db, i) = {r.ret} \cup KeptDhcp(DB, i, subnet)
                 /\ \A id \in KeptDhcp(DB, i, subnet) : r.db.ips[id] = ips[id]
                 /\ AtMostOneDhcp(DB, i) => AtMostOneDhcp(r.db, i)
       /\ \A mode \in {"auto", "static", "link_up"}, subnet \in Subnets,
             pick \in AllIps \cup {None} :
             AddsNoDhcp(link_subnet(DB, i, mode, subnet, None, None, pick).db, i)
       /\ AddsNoDhcp(link_subnet(DB, i, "link_up", None, None, None, None).db, i)
       /\ \A link_id \in Links(DB, i) :
             AddsNoDhcp(unlink_ip_address(DB, i, link_id,
                            get_interface_link_type(ips[link_id]), FALSE), i)
       /\ AddsNoDhcp(ensure_link_up(DB, i), i)

\* link_subnet(DHCP) on an IPv4 subnet has left eth0 with its new link and
\* with the DHCP link it held on the IPv6 subnet.
C30_Witness ==
    /\ last.op = "link_subnet"
    /\ last.mode = "dhcp"
    /\ last.result = "ok"
    /\ ips[last.ret].subnet = "s4a"
    /\ \E id \in DhcpLinks(DB, "eth0") : id < last.ret /\ ips[id].subnet = "s6"


(***************************************************************************)
(* update_ip_address to a mode other than STATIC                           *)
(***************************************************************************)
\* C31: update_ip_address of a link to AUTO, DHCP or LINK_UP leaves the row
\* with alloc_type AUTO, DHCP or STICKY, without ip and on the subnet
\* given, whatever link type it had; an update of a STATIC link to STATIC
\* on its own subnet, without ip_address or with its own, changes nothing.
C31_UpdateSetsModeAndSubnet ==
    \A i \in Called : \A link_id \in Links(DB, i) :
       /\ \A mode \in {"auto", "dhcp", "link_up"}, subnet \in Subnets \cup {None} :
             LET r == update_ip_address(DB, i, link_id, mode, subnet, None, None)
             IN  /\ r.result = "ok"
                 /\ r.db.ips[link_id] =
                       [alloc_type |-> CASE mode = "auto" -> "AUTO"
                                         [] mode = "dhcp" -> "DHCP"
                                         [] OTHER -> "STICKY",
                        ip |-> None, subnet |-> subnet]
                 /\ link_id \in Links(r.db, i)
       /\ get_interface_link_type(ips[link_id]) = "static"
          => \A ip_address \in {None, ips[link_id].ip}, pick \in AllIps \cup {None} :
                update_ip_address(DB, i, link_id, "static", ips[link_id].subnet,
                                  ip_address, pick) = Ok(DB, link_id)

\* The last call updated a link of eth0 to DHCP on the IPv6 subnet: the row
\* is a DHCP row without ip on that subnet.
C31_Witness ==
    /\ last.op = "update_link_by_id"
    /\ last.mode = "dhcp"
    /\ last.result = "ok"
    /\ last.ret \in Links(DB, "eth0")
    /\ ips[last.ret] = [alloc_type |-> "DHCP", ip |-> None, subnet |-> "s6"]

\* The addresses of the prefixes of cidr_list.
ObservedAddresses(cidr_list) == {o.address : o \in Range(cidr_list)}

WithParents(D, type, parents) ==
    AddRels(save(D, NewRow(type, KwargsOf(type)), None).db, NewKey(D), parents)

\* get_or_create(type, parents) makes a new interface, and the parents
\* given break a rule of the type.
CreatesBroken(type, parents) ==
    /\ NoneMatches(type, parents)
    /\ save(DB, NewRow(type, KwargsOf(type)), None).result = "ok"
    /\ BreaksTable(WithParents(DB, type, parents), NewKey(DB))

\* C34 as the specification states it: a get_or_create with parents that
\* break a rule of the type raises the ValidationError on parents before
\* anything is written: the tables are as they were before the call.
C34_ValidatedBeforeWritten ==
    \A type \in {"bond", "bridge", "vlan", "unknown"}, parents \in ParentLists :
        \A r \in get_or_create(DB, type, KwargsOf(type), parents) :
            CreatesBroken(type, parents)
            => r.result = "ValidationError(parents)" /\ r.db = DB

\* C34: a get_or_create that makes a new interface with parents that break
\* a rule of its type raises, from the save that follows the writing of the
\* interface and of its relationships: when it raises, the Interface table
\* holds the new row and the InterfaceRelationship table a row for every
\* parent given.  It raises the ValidationError on parents when the fields of
\* the new interface pass the earlier checks and no parent lies on a cycle.
C34_RejectedAfterWritten ==
    \A type \in {"bond", "bridge", "vlan", "unknown"}, parents \in ParentLists :
        \A r \in get_or_create(DB, type, KwargsOf(type), parents) :
            CreatesBroken(type, parents)
            => LET key == NewKey(DB)
                   D1 == WithParents(DB, type, parents)
               IN  /\ r.result # "ok"
                   /\ r.db = D1
                   /\ key \in DOMAIN r.db.ifs /\ key \notin DOMAIN ifs
                   /\ Parents(r.db, key) = Range(parents)
                   /\ FieldsPass(D1, key) /\ ~Recurses(D1, key)
                         => r.result = "ValidationError(parents)"

\* The last call was a get_or_create of a bond over eth0 and the bridge br0
\* that matched nothing and raised the ValidationError on parents; its
\* caller rolled it back, so there is no bond.
C34_Witness ==
    /\ last.op = "get_or_create" /\ last.mode = "bond"
    /\ last.result = "ValidationError(parents)"
    /\ CreatesBroken("bond", <<"eth0", "if3">>)
    /\ \A i \in DOMAIN ifs : ifs[i].type # "bond"

\* The successors of interface i: its children, their children, and so on.
RECURSIVE Below(_, _, _)
Below(D, S, n) ==
    IF n = 0 THEN S
    ELSE Below(D, S \cup UNION {Children(D, c) : c \in S}, n - 1)

SuccessorsOf(D, i) == Below(D, Children(D, i), Cardinality(DOMAIN D.ifs))

\* get_ancestors(), get_successors() and get_all_related_interfaces() of
\* interface i return.
TraversalsReturn(D, i) ==
    LET n == Cardinality(DOMAIN D.ifs) + 1
    IN  /\ ~AncestorChain(D, i, n)
        /\ ~SuccessorChain(D, i, n)
        /\ ~RelatedRecurses(D, i)

\* C35: in every reachable state get_ancestors(), get_successors() and
\* get_all_related_interfaces() of every interface return, and
\* get_ancestors() is the transitive closure of the parent relationships,
\* get_successors() that of the child relationships.
C35_TraversalsTerminate ==
    \A i \in DOMAIN ifs :
        /\ TraversalsReturn(DB, i)
        /\ get_ancestors(DB, i) = AncestorsOf(DB, i)
        /\ get_successors(DB, i) = SuccessorsOf(DB, i)

\* C36 as the specification states it: in every reachable state the node
\* and enabled fields stored for a bond, a bridge and a VLAN interface are
\* the values get_node() and is_enabled() derive from its current parents.
C36_StoredFieldsDerived ==
    \A i \in DOMAIN ifs :
        ifs[i].type \in {"bond", "bridge", "vlan"} /\ ~Recurses(DB, i)
        => /\ ifs[i].node = get_node(DB, i)
           /\ ifs[i].enabled = is_enabled(DB, i)

\* C36: a save() of a bond, a bridge or a VLAN interface that returns stores
\* the node of its first parent and the OR of the enabled states of its
\* parents (the state of the one parent for a VLAN interface), whatever was
\* stored before; without parents a bond or bridge keeps its fields and a
\* VLAN interface gets no node and is enabled.  The save changes no
\* relationship.
C36_SaveStoresDerived ==
    \A i \in DOMAIN ifs :
        ifs[i].type \in {"bond", "bridge", "vlan"}
        => LET r == save(DB, ifs[i], i)
               ps == Parents(DB, i)
               row == r.db.ifs[i]
           IN  r.result = "ok"
               => /\ r.db.rels = rels
                  /\ ps # {} /\ First(DB, ps) # i
                        => row.node = get_node(DB, First(DB, ps))
                  /\ ps # {} /\ ifs[i].type \in {"bond", "bridge"}
                        => row.enabled = (\E p \in ps \ {i} : EnabledState(DB, p))
                  /\ ps # {} /\ ifs[i].type = "vlan"
                        => row.enabled = EnabledState(DB, First(DB, ps))
                  /\ ps = {} /\ ifs[i].type \in {"bond", "bridge"}
                        => row.node = ifs[i].node /\ row.enabled = ifs[i].enabled
                  /\ ps = {} /\ ifs[i].type = "vlan"
                        => row.node = None /\ row.enabled

\* The bridge br0, made enabled on node n1, was just saved with eth1
\* (disabled, moved to node n2) as its only parent: its stored fields say
\* disabled and n2.
C36_Witness ==
    /\ last.op = "save" /\ last.iface = "if3" /\ last.result = "ok"
    /\ Parents(DB, "if3") = {"eth1"}
    /\ ~ifs["eth1"].enabled /\ ifs["eth1"].node = "n2"
    /\ ~ifs["if3"].enabled /\ ifs["if3"].node = "n2"

\* C37: when get_or_create_on_node(node, name, mac_address, parent_nics)
\* returns an interface that was there before the call, the object returned
\* carries the name and the MAC address given and the node given, and its
\* parents are exactly parent_nics.  When the interface was on another node,
\* every address it held, DISCOVERED ones too, is deleted; when it was on the
\* node, the addresses and what holds them are as before.
C37_FoundInterfaceUpdated ==
    \A c \in OnNodeCalls :
        LET r == get_or_create_on_node(DB, c.type, c.node, c.name,
                                       c.mac_address, c.parent_nics)
            obj == ReturnedInterface(DB, c.type, c.node, c.name,
                                     c.mac_address, c.parent_nics)
        IN  r.result = "ok" /\ r.ret \in DOMAIN ifs
            => /\ obj.name = c.name /\ obj.mac_address = c.mac_address
               /\ obj.node = c.node /\ obj.type = c.type
               /\ Parents(r.db, r.ret) = Range(c.parent_nics)
               /\ ifs[r.ret].node # c.node
                     => /\ IfaceIps(r.db, r.ret) = {}
                        /\ IfaceIps(DB, r.ret) \cap DOMAIN r.db.ips = {}
               /\ ifs[r.ret].node = c.node
                     => r.db.ips = ips /\ r.db.m2m = m2m

\* The last call was a get_or_create_on_node of the physical manager that
\* returned eth0, whose row says node n1 and which holds no address and has
\* eth1 as its parent, while row 1 of the addresses, made for eth0, is gone.
C37_Witness ==
    /\ last.op = "get_or_create_on_node" /\ last.mode = "physical"
    /\ last.result = "ok" /\ last.key = "eth0"
    /\ Parents(DB, "eth0") = {"eth1"}
    /\ nextId = 2 /\ DOMAIN ips = {}
    /\ ifs["eth0"].node = "n1"

\* C38 as the specification states it: in every state reached by
\* link_subnet(STATIC), update_link_by_id to STATIC, claim_auto_ips,
\* release_auto_ips and update_ip_addresses called one after another, no two
\* rows of the address table carry the same ip.
C38_NoSharedIp ==
    \A a \in DOMAIN ips, b \in DOMAIN ips :
        a # b /\ ips[a].ip # None => ips[a].ip # ips[b].ip

\* C38: in every such state two rows that carry the same ip are a
\* DISCOVERED row and a row that is not DISCOVERED; no two links of
\* interfaces (AUTO, DHCP, STICKY, USER_RESERVED) carry the same ip, and no
\* two DISCOVERED rows do.
C38_SharedWithDiscoveredOnly ==
    \A a \in DOMAIN ips, b \in DOMAIN ips :
        a # b /\ ips[a].ip # None /\ ips[a].ip = ips[b].ip
        => (ips[a].alloc_type = "DISCOVERED") # (ips[b].alloc_type = "DISCOVERED")

\* eth0 holds the STATIC link 10.0.0.1 on s4a, and the last call, a
\* link_subnet(STATIC, s4a) on eth1 without an address, was given the other
\* address of the subnet.
C38_Witness ==
    /\ last.op = "link_subnet" /\ last.iface = "eth1" /\ last.mode = "static"
    /\ last.result = "ok" /\ last.ret = 2
    /\ Links(DB, "eth0") = {1} /\ Links(DB, "eth1") = {2}
    /\ ips[1] = [alloc_type |-> "STICKY", ip |-> "10.0.0.1", subnet |-> "s4a"]
    /\ ips[2] = [alloc_type |-> "STICKY", ip |-> "10.0.0.9", subnet |-> "s4a"]

\* C39 as the specification states it: claim_auto_ips either gives every
\* unclaimed AUTO link of the interface an ip, or raises and leaves every
\* AUTO link of the interface as it was before the call.
C39_AllOrNothing ==
    \A i \in Called, exclude_addresses \in ExcludeSets :
        \A r \in claim_auto_ips(DB, i, exclude_addresses) :
            IF r.result = "ok"
            THEN Unclaimed(r.db, i) = {}
            ELSE /\ AutoIps(r.db, i) = AutoIps(DB, i)
                 /\ \A id \in AutoIps(DB, i) : r.db.ips[id] = ips[id]

\* C39: a claim_auto_ips that returns has given every unclaimed AUTO link of
\* the interface an ip.  One that raises (StaticIPAddressExhaustion or
\* StaticIPAddressUnavailable) stops at the link that failed: the links
\* claimed before it stay claimed (new AUTO rows with an ip in place of their
\* placeholders, which are deleted), and the link that failed and those after
\* it are as they were.
C39_ClaimedBeforeFailureStay ==
    \A i \in Called, exclude_addresses \in ExcludeSets :
        \A r \in claim_auto_ips(DB, i, exclude_addresses) :
            IF r.result = "ok"
            THEN Unclaimed(r.db, i) = {}
            ELSE LET gone == Unclaimed(DB, i) \ DOMAIN r.db.ips
                 IN  /\ r.result \in {"StaticIPAddressExhaustion",
                                      "StaticIPAddressUnavailable"}
                     /\ Cardinality(gone) = Len(r.ret)
                     /\ \A k \in 1..Len(r.ret) :
                           /\ r.ret[k] \in AutoIps(r.db, i) \ DOMAIN ips
                           /\ r.db.ips[r.ret[k]].ip # None
                     /\ \A id \in gone, kept \in Unclaimed(DB, i) \ gone : id < kept
                     /\ Unclaimed(r.db, i) = Unclaimed(DB, i) \ gone
                     /\ Unclaimed(r.db, i) # {}
                     /\ \A id \in DOMAIN ips \ gone : r.db.ips[id] = ips[id]

\* The last call was a claim_auto_ips on eth0 that had claimed one link when
\* it raised StaticIPAddressExhaustion at the next; its caller rolled it
\* back, and eth0 holds its two AUTO links without ip.
C39_Witness ==
    /\ last.op = "claim_auto_ips" /\ last.iface = "eth0"
    /\ last.result = "StaticIPAddressExhaustion"
    /\ Len(last.rets) = 1
    /\ Cardinality(Unclaimed(DB, "eth0")) = 2

\* C40: get_all_related_interfaces() of an interface holds all its ancestors
\* and all its successors, also when the interface has no parents (where
\* the calls return); so no child of a bond or bridge that carries its MAC
\* address is among the interfaces _validate_unique_or_parent_mac finds bad.
C40_FamilyHoldsSuccessors ==
    \A i \in DOMAIN ifs :
        TraversalsReturn(DB, i)
        => /\ get_ancestors(DB, i) \subseteq get_all_related_interfaces(DB, i)
           /\ get_successors(DB, i) \subseteq get_all_related_interfaces(DB, i)
           /\ ifs[i].type \in {"bond", "bridge"}
                 => bad_interfaces(DB, i) \cap Children(DB, i) = {}

====
